---- MODULE Spec2Model ----
(***************************************************************************)
(* A model of merlin-cli: the service registry, the command router with    *)
(* its option parser, the command builder with its built-in validation,    *)
(* the CLI orchestrator with plugin integration, and process bootstrap.    *)
(*                                                                         *)
(* Strings that the code inspects character by character (argument         *)
(* tokens, command names) are sequences of one-character strings.          *)
(* Every component has its own specification over the shared variables;    *)
(* the variables of the other components keep their initial values.        *)
(***************************************************************************)
EXTENDS Integers, Sequences, FiniteSets, TLC

VARIABLES
    \* ---- ServiceRegistry (src/src/core/registry.ts) ----
    services,        \* Map<string, any>: key -> instance (or absent)
    factories,       \* Map<string, () => any>: key -> factory (or absent)
    invoked,         \* how often factory f was invoked on behalf of key k
    made,            \* how many objects the factories have constructed so far
    cleared,         \* whether clear() was ever called
    lastRegistered,  \* the value most recently passed to register(k, .) since clear
    latest,          \* per key, the registration made last since clear: the
                     \* value of a register or the factory of a registerFactory
    regCall,         \* the registry call made last
    regRet,          \* what that call returned or threw
    \* ---- CommandRouter.parseOptions called on its own ----
    parseArgs,       \* the argument vector handed to parseOptions
    parseOut,        \* the option map it returned (done = FALSE before the call)
    \* ---- createCommand(spec).execute(context) called on its own ----
    built,           \* the command, the context handed in and the outcome
    \* ---- CommandRouter ----
    objects,         \* the commands objects by identity: config.commands and
                     \* the object the router (and the CLI) holds
    router,          \* the router: its commands reference, middleware, hooks, options
    routed,          \* the route call made: its arguments and its outcome
    \* ---- bootstrap (src/src/core/bootstrap.ts) ----
    bootstrapped,    \* the module-level flag
    handlers,        \* how many listeners process.on has added per event
    callers,         \* where each caller of bootstrap stands, and its calls so far
    \* ---- createCLI (src/src/core/cli.ts) and PluginIntegration ----
    cli              \* the CLI: its plugin options, the plugins on disk and
                     \* the loaded ones, its calls so far, and of the last run
                     \* the plugins loaded then and the plugin-layer events
                     \* before and after router.route

regVars == <<services, factories, invoked, made, cleared, lastRegistered, latest, regCall, regRet>>

parseVars == <<parseArgs, parseOut>>

builtVars == <<built>>

routerVars == <<objects, router, routed>>

bootVars == <<bootstrapped, handlers, callers>>

cliVars == <<cli>>

vars == <<regVars, parseVars, builtVars, routerVars, bootVars, cliVars>>

(***************************************************************************)
(* ServiceRegistry                                                         *)
(***************************************************************************)

\* Bounds of the registry model.
NumValues == 2
MaxInvocations == 3

\* Token keys ('logger' is LoggerToken's key), eager values and factories.
Keys == {"logger", "db"}
Values == 1..NumValues
FactoryIds == {"f1", "f2"}

\* A service value: an eager value handed to register, or the object a
\* factory returned (a fresh identity per invocation).
Absent == [kind |-> "absent", id |-> "", serial |-> 0]
Eager(v) == [kind |-> "value", id |-> "", serial |-> v]
Made(f, n) == [kind |-> "made", id |-> f, serial |-> n]

Factory(f) == [kind |-> "factory", id |-> f, serial |-> 0]

NoFactory == "none"

RegistryInit ==
    /\ services = [k \in Keys |-> Absent]
    /\ factories = [k \in Keys |-> NoFactory]
    /\ invoked = [p \in Keys \X FactoryIds |-> 0]
    /\ made = 0
    /\ cleared = FALSE
    /\ lastRegistered = [k \in Keys |-> Absent]
    /\ latest = [k \in Keys |-> Absent]
    /\ regCall = [op |-> "new", key |-> ""]
    /\ regRet = [kind |-> "void", val |-> Absent]

\* A register that leaves an instance already present in place.
RegisterKeepsExisting(k, v) ==
    /\ services' = [services EXCEPT ![k] = IF @ = Absent THEN Eager(v) ELSE @]
    /\ lastRegistered' = [lastRegistered EXCEPT ![k] = Eager(v)]
    /\ latest' = [latest EXCEPT ![k] = Eager(v)]
    /\ regCall' = [op |-> "register", key |-> k]
    /\ regRet' = [kind |-> "void", val |-> Absent]
    /\ UNCHANGED <<factories, invoked, made, cleared>>

\* register(token, service): this.services.set(key, service)
Register(k, v) ==
    /\ services' = [services EXCEPT ![k] = Eager(v)]
    /\ lastRegistered' = [lastRegistered EXCEPT ![k] = Eager(v)]
    /\ latest' = [latest EXCEPT ![k] = Eager(v)]
    /\ regCall' = [op |-> "register", key |-> k]
    /\ regRet' = [kind |-> "void", val |-> Absent]
    /\ UNCHANGED <<factories, invoked, made, cleared>>

\* registerFactory(token, factory): this.factories.set(key, factory)
RegisterFactory(k, f) ==
    /\ factories' = [factories EXCEPT ![k] = f]
    /\ regCall' = [op |-> "registerFactory", key |-> k]
    /\ regRet' = [kind |-> "void", val |-> Absent]
    /\ latest' = [latest EXCEPT ![k] = Factory(f)]
    /\ UNCHANGED <<services, invoked, made, cleared, lastRegistered>>

\* A get that asks the factory first and caches nothing.
GetFactoryFirst(k) ==
    /\ regCall' = [op |-> "get", key |-> k]
    /\ IF factories[k] # NoFactory
       THEN /\ made < MaxInvocations
            /\ invoked' = [invoked EXCEPT ![<<k, factories[k]>>] = @ + 1]
            /\ made' = made + 1
            /\ regRet' = [kind |-> "value",
                          val |-> Made(factories[k], made + 1)]
       ELSE /\ regRet' = IF services[k] # Absent
                          THEN [kind |-> "value", val |-> services[k]]
                          ELSE [kind |-> "ServiceNotFound", val |-> Absent]
            /\ UNCHANGED <<invoked, made>>
    /\ UNCHANGED <<services, factories, cleared, lastRegistered, latest>>

\* A get that invokes the factory and forgets to cache its result.
GetNoCache(k) ==
    /\ regCall' = [op |-> "get", key |-> k]
    /\ IF services[k] # Absent
       THEN /\ regRet' = [kind |-> "value", val |-> services[k]]
            /\ UNCHANGED <<invoked, made>>
       ELSE IF factories[k] # NoFactory
       THEN /\ made < MaxInvocations
            /\ invoked' = [invoked EXCEPT ![<<k, factories[k]>>] = @ + 1]
            /\ made' = made + 1
            /\ regRet' = [kind |-> "value",
                          val |-> Made(factories[k], made + 1)]
       ELSE /\ regRet' = [kind |-> "ServiceNotFound", val |-> Absent]
            /\ UNCHANGED <<invoked, made>>
    /\ UNCHANGED <<services, factories, cleared, lastRegistered, latest>>

\* get(token): the cached instance, else the factory's result (cached), else
\* Error(`Service '${key}' not found`)
Get(k) ==
    /\ regCall' = [op |-> "get", key |-> k]
    /\ IF services[k] # Absent
       THEN /\ regRet' = [kind |-> "value", val |-> services[k]]
            /\ UNCHANGED <<services, invoked, made>>
       ELSE IF factories[k] # NoFactory
       THEN /\ made < MaxInvocations
            /\ LET service == Made(factories[k], made + 1)
               IN /\ invoked' = [invoked EXCEPT ![<<k, factories[k]>>] = @ + 1]
                  /\ made' = made + 1
                  /\ services' = [services EXCEPT ![k] = service]
                  /\ regRet' = [kind |-> "value", val |-> service]
       ELSE /\ regRet' = [kind |-> "ServiceNotFound", val |-> Absent]
            /\ UNCHANGED <<services, invoked, made>>
    /\ UNCHANGED <<factories, cleared, lastRegistered, latest>>

\* has(token): this.services.has(key) || this.factories.has(key)
Has(k) ==
    /\ regCall' = [op |-> "has", key |-> k]
    /\ regRet' = [kind |-> "bool",
                  val |-> (services[k] # Absent \/ factories[k] # NoFactory)]
    /\ UNCHANGED <<services, factories, invoked, made, cleared, lastRegistered, latest>>

\* clear(): both maps are emptied
Clear ==
    /\ services' = [k \in Keys |-> Absent]
    /\ factories' = [k \in Keys |-> NoFactory]
    /\ lastRegistered' = [k \in Keys |-> Absent]
    /\ latest' = [k \in Keys |-> Absent]
    /\ cleared' = TRUE
    /\ regCall' = [op |-> "clear", key |-> ""]
    /\ regRet' = [kind |-> "void", val |-> Absent]
    /\ UNCHANGED <<invoked, made>>

RegistryNext ==
    \/ \E k \in Keys, v \in Values : Register(k, v)
    \/ \E k \in Keys, f \in FactoryIds : RegisterFactory(k, f)
    \/ \E k \in Keys : Get(k)
    \/ \E k \in Keys : Has(k)
    \/ Clear

(***************************************************************************)
(* Claims about the registry                                               *)
(***************************************************************************)

\* C1: get returns, by identity, the value most recently passed to register
\* for the key whenever there is one, without asking a factory even if one
\* is registered for the key; for a key with neither an instance nor a
\* factory, has is false and get fails with Service-Not-Found, and both maps
\* are left as they were.
C1_GetReturnsRegisteredInstance ==
    [][ LET k == regCall'.key
        IN /\ (regCall'.op = "get" /\ lastRegistered[k] # Absent) =>
                 /\ regRet' = [kind |-> "value", val |-> lastRegistered[k]]
                 /\ invoked' = invoked
           /\ ( /\ regCall'.op \in {"get", "has"}
                /\ services[k] = Absent
                /\ factories[k] = NoFactory ) =>
                 /\ services' = services
                 /\ factories' = factories
                 /\ regCall'.op = "get" => regRet'.kind = "ServiceNotFound"
                 /\ regCall'.op = "has" => regRet' = [kind |-> "bool", val |-> FALSE]
      ]_vars

\* C1 witness: a get of a key that has both a registered instance and a
\* factory has returned the instance, and no factory has ever run.
C1_Witness ==
    /\ regCall.op = "get"
    /\ lastRegistered[regCall.key] # Absent
    /\ factories[regCall.key] # NoFactory
    /\ regRet.kind = "value"
    /\ regRet.val = lastRegistered[regCall.key]
    /\ made = 0

\* C2: as long as clear was never called, the factory registered for a key is
\* invoked at most once: a get that finds no instance invokes the key's
\* factory once and caches what it returned; a get that finds an instance
\* returns it and invokes nothing; has invokes nothing and changes nothing.
C2_FactoryInvokedAtMostOnce ==
    [][ LET k == regCall'.key
        IN /\ ~cleared' => \A p \in Keys \X FactoryIds : invoked'[p] <= 1
           /\ ( /\ regCall'.op = "get"
                /\ services[k] = Absent
                /\ factories[k] # NoFactory ) =>
                 /\ invoked' = [invoked EXCEPT ![<<k, factories[k]>>] = @ + 1]
                 /\ regRet'.kind = "value"
                 /\ regRet'.val.kind = "made"
                 /\ services' = [services EXCEPT ![k] = regRet'.val]
           /\ (regCall'.op = "get" /\ services[k] # Absent) =>
                 /\ regRet' = [kind |-> "value", val |-> services[k]]
                 /\ invoked' = invoked
                 /\ services' = services
           /\ regCall'.op = "has" =>
                 /\ invoked' = invoked
                 /\ services' = services
      ]_vars

\* C2 witness: a later get of a key whose factory ran once returned the
\* cached object of that one run, although another factory has since been
\* registered for the key.
C2_Witness ==
    /\ ~cleared
    /\ regCall.op = "get"
    /\ regRet.kind = "value"
    /\ regRet.val.kind = "made"
    /\ regRet.val = services[regCall.key]
    /\ factories[regCall.key] # regRet.val.id
    /\ invoked[<<regCall.key, regRet.val.id>>] = 1
    /\ invoked[<<regCall.key, factories[regCall.key]>>] = 0


\* C17: for any two registrations under the same key, in either order and
\* of either kind, the later one wins: a get that follows returns the value
\* of the later register, or what the factory of the later registerFactory
\* produces.
C17_LaterRegistrationWins ==
    [][ LET k == regCall'.key
        IN regCall'.op = "get" /\ latest[k] # Absent =>
              /\ regRet'.kind = "value"
              /\ IF latest[k].kind = "factory"
                 THEN regRet'.val.kind = "made" /\ regRet'.val.id = latest[k].id
                 ELSE regRet'.val = latest[k]
      ]_vars

\* C17 amended: a later register always wins; a later registerFactory wins
\* only while the key has no instance: when an instance is present, be it
\* registered or cached from an earlier factory, get goes on returning it
\* and the later factory is not invoked.
C17_LaterFactoryYieldsToInstance ==
    [][ LET k == regCall'.key
        IN regCall'.op = "get" /\ latest[k] # Absent =>
              /\ regRet'.kind = "value"
              /\ latest[k].kind = "value" =>
                    regRet'.val = latest[k] /\ invoked' = invoked
              /\ latest[k].kind = "factory" /\ services[k] = Absent =>
                    /\ regRet'.val.kind = "made"
                    /\ regRet'.val.id = latest[k].id
                    /\ invoked' = [invoked EXCEPT ![<<k, latest[k].id>>] = @ + 1]
              /\ latest[k].kind = "factory" /\ services[k] # Absent =>
                    regRet'.val = services[k] /\ invoked' = invoked
      ]_vars

\* C17 witness: a key was given an instance by register and a factory by a
\* later registerFactory, and the get that followed returned the instance
\* without any factory having run.
C17_Witness ==
    /\ regCall.op = "get"
    /\ latest[regCall.key].kind = "factory"
    /\ lastRegistered[regCall.key] # Absent
    /\ regRet = [kind |-> "value", val |-> lastRegistered[regCall.key]]
    /\ made = 0

(***************************************************************************)
(* Strings and JavaScript values                                           *)
(***************************************************************************)

\* String.prototype.startsWith
StartsWith(str, prefix) ==
    /\ Len(str) >= Len(prefix)
    /\ SubSeq(str, 1, Len(prefix)) = prefix

\* String.prototype.slice(n)
Slice(str, n) == SubSeq(str, n + 1, Len(str))

\* String.prototype.split(sep) for a one-character separator: the pieces
\* between the separators, always at least one piece.
RECURSIVE SplitFrom(_, _, _)
SplitFrom(str, sep, piece) ==
    IF str = <<>> THEN <<piece>>
    ELSE IF Head(str) = sep THEN <<piece>> \o SplitFrom(Tail(str), sep, <<>>)
    ELSE SplitFrom(Tail(str), sep, Append(piece, Head(str)))

Split(str, sep) == SplitFrom(str, sep, <<>>)

\* JavaScript values as they occur in option maps and named arguments.
JUndefined == [t |-> "undefined", s |-> <<>>, n |-> 0, b |-> FALSE, a |-> <<>>]
JStr(str) == [t |-> "string", s |-> str, n |-> 0, b |-> FALSE, a |-> <<>>]
JBool(bool) == [t |-> "boolean", s |-> <<>>, n |-> 0, b |-> bool, a |-> <<>>]
JNum(num) == [t |-> "number", s |-> <<>>, n |-> num, b |-> FALSE, a |-> <<>>]
JNaN == [t |-> "NaN", s |-> <<>>, n |-> 0, b |-> FALSE, a |-> <<>>]
JArray(items) == [t |-> "array", s |-> <<>>, n |-> 0, b |-> FALSE, a |-> items]

\* A Record<string, any>: a function from its own keys to values.
EmptyRecord == [key \in {} |-> JUndefined]

\* obj[key] = value
SetKey(obj, key, value) ==
    [x \in DOMAIN obj \cup {key} |-> IF x = key THEN value ELSE obj[x]]

(***************************************************************************)
(* CommandRouter.parseOptions                                              *)
(***************************************************************************)

\* for (let i = 0; i < args.length; i++) { ... }, from index i (1-based) on
\* with the options collected so far.
RECURSIVE ParseOptionsFrom(_, _, _)
ParseOptionsFrom(args, i, options) ==
    IF i > Len(args) THEN options
    ELSE
      LET arg == args[i]
          nextIsValue == i + 1 <= Len(args) /\ ~StartsWith(args[i + 1], <<"-">>)
      IN IF StartsWith(arg, <<"-", "-">>)
         THEN LET parts == Split(Slice(arg, 2), "=")
                  key == parts[1]
              IN IF Len(parts) >= 2
                 THEN ParseOptionsFrom(args, i + 1, SetKey(options, key, JStr(parts[2])))
                 ELSE IF nextIsValue
                 THEN ParseOptionsFrom(args, i + 2, SetKey(options, key, JStr(args[i + 1])))
                 ELSE ParseOptionsFrom(args, i + 1, SetKey(options, key, JBool(TRUE)))
         ELSE IF StartsWith(arg, <<"-">>) /\ Len(arg) = 2
         THEN LET key == Slice(arg, 1)
              IN IF nextIsValue
                 THEN ParseOptionsFrom(args, i + 2, SetKey(options, key, JStr(args[i + 1])))
                 ELSE ParseOptionsFrom(args, i + 1, SetKey(options, key, JBool(TRUE)))
         ELSE ParseOptionsFrom(args, i + 1, options)

ParseOptions(args) == ParseOptionsFrom(args, 1, EmptyRecord)

\* Bound: the longest argument vector handed to parseOptions on its own.
MaxFlagArgs == 3

\* The tokens of those vectors: --a, --a=b, --a=b=c, --a=, --b, --, -x, -xy,
\* -, -= and the plain words v and b.
FlagTokens ==
    { <<"-", "-", "a">>,
      <<"-", "-", "a", "=", "b">>,
      <<"-", "-", "a", "=", "b", "=", "c">>,
      <<"-", "-", "a", "=">>,
      <<"-", "-", "b">>,
      <<"-", "-">>,
      <<"-", "x">>,
      <<"-", "x", "y">>,
      <<"-">>,
      <<"-", "=">>,
      <<"v">>,
      <<"b">> }

FlagVectors == UNION { [1..n -> FlagTokens] : n \in 0..MaxFlagArgs }

ParseInit ==
    /\ parseArgs = <<>>
    /\ parseOut = [done |-> FALSE, options |-> EmptyRecord]

\* One call of parseOptions(args).
CallParseOptions(args) ==
    /\ parseArgs' = args
    /\ parseOut' = [done |-> TRUE, options |-> ParseOptions(args)]

\* One call per behaviour.
ParseNext ==
    /\ ~parseOut.done
    /\ \E args \in FlagVectors : CallParseOptions(args)

(***************************************************************************)
(* Commands, contexts, events and errors                                   *)
(***************************************************************************)

\* An ArgSpec (name, type, required, validate) and an OptionSpec.
\* validate names the custom validator: "none" when the spec has none.
ArgSpec(name, type, required, validate) ==
    [name |-> name, type |-> type, required |-> required, validate |-> validate]

OptionSpec(name, type, required, hasDefault, default, validate) ==
    [name |-> name, type |-> type, required |-> required,
     hasDefault |-> hasDefault, default |-> default, validate |-> validate]

\* What a custom validator returns for a value: true, a message (a string),
\* or a falsy value.  "ok" accepts everything, "msg" and "falsy" reject
\* everything, "number" accepts exactly the values that are numbers.
ValidatorResult(validate, value) ==
    CASE validate = "ok" -> "true"
      [] validate = "msg" -> "string"
      [] validate = "falsy" -> "falsy"
      [] validate = "number" -> IF value.t = "number" THEN "true" ELSE "string"

\* A CommandDefinition.  kind is "plain" for a Command object literal,
\* "built" for what createCommand returns, "help" for what createHelpCommand
\* returns and "lazy" for a loader function () => Promise<Command>.
\*   subcommands: the entries of the subcommands object in key order, each
\*                <<key, command>>; hasSubs tells whether the field is set
\*   hasExecute:  whether the object has an execute function
\*   handler:     the user's handler ("none" when the spec has no execute)
\*   middleware:  the spec's middleware, each "next", "stop" or "throw"
\*   view:        for help, the object whose commands it renders
\*   loads:       for lazy, <<the command the loader resolves to>>
Command(kind, name, aliases, hasSubs, subcommands, hasExecute, handler, args, options, middleware) ==
    [kind |-> kind, name |-> name, aliases |-> aliases, hasSubs |-> hasSubs,
     subcommands |-> subcommands, hasExecute |-> hasExecute,
     handler |-> handler, args |-> args, options |-> options,
     middleware |-> middleware, view |-> "none", loads |-> <<>>]

\* A CommandContext: args, namedArgs (when set), options.
\* hasLogger: whether context.registry resolves LoggerToken.
Context(args, options, hasLogger) ==
    [args |-> args, hasNamed |-> FALSE, namedArgs |-> EmptyRecord,
     options |-> options, hasLogger |-> hasLogger]

NoContext == Context(<<>>, EmptyRecord, FALSE)

\* A thrown Error.  name and command are the strings the message quotes,
\* list the names it enumerates, msgs the collected validation messages.
Error(kind, name, command, list, msgs) ==
    [kind |-> kind, name |-> name, command |-> command, list |-> list,
     msgs |-> msgs]

NoError == Error("none", <<>>, <<>>, <<>>, <<>>)

\* One observable step of an invocation: a middleware, a built-in step, a
\* handler, a hook or a loader starting, with the context it was given.
\* path and list are set for a rendered help: the command path it is the
\* help of and the subcommand names it lists.
EventAt(e, who, path, list, ctx) ==
    [e |-> e, who |-> who, path |-> path, list |-> list, ctx |-> ctx]

Event(e, who, ctx) == EventAt(e, who, <<>>, <<>>, ctx)

\* The result of running a piece of the pipeline: the events in order, the
\* context as it was left, and the error thrown (NoError on normal return).
Outcome(events, ctx, err) == [events |-> events, ctx |-> ctx, err |-> err]

(***************************************************************************)
(* Built-in middleware: validateArgs, validateOptions, logExecution        *)
(***************************************************************************)

Digits == {"0", "1", "2", "3", "4", "5", "6", "7", "8", "9"}

DigitValue(c) ==
    CASE c = "0" -> 0 [] c = "1" -> 1 [] c = "2" -> 2 [] c = "3" -> 3
      [] c = "4" -> 4 [] c = "5" -> 5 [] c = "6" -> 6 [] c = "7" -> 7
      [] c = "8" -> 8 [] c = "9" -> 9

RECURSIVE DecimalValue(_)
DecimalValue(str) ==
    IF str = <<>> THEN 0
    ELSE 10 * DecimalValue(SubSeq(str, 1, Len(str) - 1)) + DigitValue(str[Len(str)])

\* Number(value) of a string over digits, "-" and letters: the empty string
\* is 0, an optionally negated run of digits is its decimal value,
\* anything else is NaN.
StringToNumber(str) ==
    LET digits == IF str # <<>> /\ Head(str) = "-" THEN Tail(str) ELSE str
    IN IF str = <<>> THEN JNum(0)
       ELSE IF digits # <<>> /\ \A i \in 1..Len(digits) : digits[i] \in Digits
       THEN IF Head(str) = "-" THEN JNum(0 - DecimalValue(digits))
            ELSE JNum(DecimalValue(digits))
       ELSE JNaN

\* Number(value) of any value that occurs.
ToNumber(value) ==
    CASE value.t = "number" -> value
      [] value.t = "NaN" -> JNaN
      [] value.t = "string" -> StringToNumber(value.s)
      [] value.t = "boolean" -> IF value.b THEN JNum(1) ELSE JNum(0)
      [] value.t = "undefined" -> JNaN
      [] value.t = "array" ->
            IF value.a = <<>> THEN JNum(0)
            ELSE IF Len(value.a) = 1 THEN StringToNumber(value.a[1])
            ELSE JNaN

\* The messages of validateArgs for the declared argument at position i and
\* every later one (the body of its for loop), and the bindings it makes.
RECURSIVE ValidateArgsFrom(_, _, _, _, _)
ValidateArgsFrom(argSpecs, providedArgs, i, errors, namedArgs) ==
    IF i > Len(argSpecs) THEN [errors |-> errors, namedArgs |-> namedArgs]
    ELSE
      LET argSpec == argSpecs[i]
          provided == i <= Len(providedArgs)
      IN IF argSpec.required /\ (~provided \/ providedArgs[i] = <<>>)
         THEN ValidateArgsFrom(argSpecs, providedArgs, i + 1,
                  Append(errors, [m |-> "Missing required argument", name |-> argSpec.name]),
                  namedArgs)
         ELSE IF provided
         THEN LET number == StringToNumber(providedArgs[i])
                  notNumber == argSpec.type = "number" /\ number = JNaN
                  value == IF argSpec.type = "number" /\ number # JNaN
                           THEN number ELSE JStr(providedArgs[i])
                  typeErrors == IF notNumber
                                THEN <<[m |-> "must be a number", name |-> argSpec.name]>>
                                ELSE <<>>
                  result == IF argSpec.validate = "none" THEN "true"
                            ELSE ValidatorResult(argSpec.validate, value)
                  customErrors ==
                      CASE result = "string" ->
                             <<[m |-> "validator message", name |-> argSpec.name]>>
                        [] result = "falsy" ->
                             <<[m |-> "Invalid value for argument", name |-> argSpec.name]>>
                        [] result = "true" -> <<>>
              IN ValidateArgsFrom(argSpecs, providedArgs, i + 1,
                     errors \o typeErrors \o customErrors,
                     SetKey(namedArgs, argSpec.name, value))
         ELSE ValidateArgsFrom(argSpecs, providedArgs, i + 1, errors, namedArgs)

ValidateArgsResultFailFast(ctx, r) ==
    IF r.errors # <<>>
    THEN [ctx |-> ctx,
          err |-> Error("Validation errors", <<>>, <<>>, <<>>, <<Head(r.errors)>>)]
    ELSE [ctx |-> [ctx EXCEPT !.hasNamed = TRUE, !.namedArgs = r.namedArgs],
          err |-> NoError]

\* validateArgs(context, command, next) up to its call of next: either the
\* one Error carrying every message, or the context with namedArgs set.
ValidateArgsResult(ctx, r) ==
    IF r.errors # <<>>
    THEN [ctx |-> ctx, err |-> Error("Validation errors", <<>>, <<>>, <<>>, r.errors)]
    ELSE [ctx |-> [ctx EXCEPT !.hasNamed = TRUE, !.namedArgs = r.namedArgs],
          err |-> NoError]

\* A validateArgs without its required-argument check.
ValidateArgsNoRequiredCheck(ctx, command) ==
    ValidateArgsResult(ctx,
        ValidateArgsFrom([i \in 1..Len(command.args) |->
                             [command.args[i] EXCEPT !.required = FALSE]],
                         ctx.args, 1, <<>>, EmptyRecord))

ValidateArgs(ctx, command) ==
    ValidateArgsResult(ctx, ValidateArgsFrom(command.args, ctx.args, 1, <<>>, EmptyRecord))

\* String.prototype.trim for blanks.
RECURSIVE TrimLeft(_)
TrimLeft(str) ==
    IF str # <<>> /\ Head(str) = " " THEN TrimLeft(Tail(str)) ELSE str

RECURSIVE TrimRight(_)
TrimRight(str) ==
    IF str # <<>> /\ str[Len(str)] = " "
    THEN TrimRight(SubSeq(str, 1, Len(str) - 1)) ELSE str

Trim(str) == TrimRight(TrimLeft(str))

\* The declared OptionSpec of a name: <<spec>>, or <<>> when undeclared.
OptionSpecOf(optionSpecs, name) ==
    SelectSeq(optionSpecs, LAMBDA spec : spec.name = name)

\* The strings 'true' and 'false'.
StrTrue == <<"t", "r", "u", "e">>
StrFalse == <<"f", "a", "l", "s", "e">>

\* The keys of an object in one fixed order.
RECURSIVE KeySeq(_)
KeySeq(keys) ==
    IF keys = {} THEN <<>>
    ELSE LET k == CHOOSE x \in keys : TRUE
         IN <<k>> \o KeySeq(keys \ {k})

\* "Check required options": a message for every required spec that the
\* provided map has no key for.
RECURSIVE RequiredOptionErrors(_, _)
RequiredOptionErrors(optionSpecs, provided) ==
    IF optionSpecs = <<>> THEN <<>>
    ELSE (IF Head(optionSpecs).required /\ Head(optionSpecs).name \notin DOMAIN provided
          THEN <<[m |-> "Missing required option", name |-> Head(optionSpecs).name]>>
          ELSE <<>>)
         \o RequiredOptionErrors(Tail(optionSpecs), provided)

\* "Validate provided options" for one provided entry with a declared spec.
ProvidedOptionErrors(spec, name, value) ==
    LET typeErrors ==
            CASE spec.type = "number" ->
                   IF value.t \notin {"number", "NaN"} /\ ToNumber(value) = JNaN
                   THEN <<[m |-> "must be a number", name |-> name]>> ELSE <<>>
              [] spec.type = "boolean" ->
                   IF value.t # "boolean" /\ value # JStr(StrTrue) /\ value # JStr(StrFalse)
                   THEN <<[m |-> "must be a boolean", name |-> name]>> ELSE <<>>
              [] OTHER -> <<>>
        result == IF spec.validate = "none" THEN "true"
                  ELSE ValidatorResult(spec.validate, value)
        customErrors ==
            CASE result = "string" -> <<[m |-> "validator message", name |-> name]>>
              [] result = "falsy" -> <<[m |-> "Invalid value for option", name |-> name]>>
              [] result = "true" -> <<>>
    IN typeErrors \o customErrors

RECURSIVE AllProvidedOptionErrors(_, _, _)
AllProvidedOptionErrors(optionSpecs, provided, names) ==
    IF names = <<>> THEN <<>>
    ELSE LET spec == OptionSpecOf(optionSpecs, Head(names))
         IN (IF spec = <<>> THEN <<>>
             ELSE ProvidedOptionErrors(spec[1], Head(names), provided[Head(names)]))
            \o AllProvidedOptionErrors(optionSpecs, provided, Tail(names))

\* case 'array': a string value becomes value.split(',').map(v => v.trim())
SplitArrays(optionSpecs, options) ==
    [name \in DOMAIN options |->
        LET spec == OptionSpecOf(optionSpecs, name)
        IN IF spec # <<>> /\ spec[1].type = "array" /\ options[name].t = "string"
           THEN LET pieces == Split(options[name].s, ",")
                IN JArray([i \in 1..Len(pieces) |-> Trim(pieces[i])])
           ELSE options[name]]

\* "Apply defaults": a declared default for every spec without a key.
RECURSIVE ApplyDefaults(_, _)
ApplyDefaults(optionSpecs, options) ==
    IF optionSpecs = <<>> THEN options
    ELSE LET spec == Head(optionSpecs)
         IN ApplyDefaults(Tail(optionSpecs),
                IF spec.name \notin DOMAIN options /\ spec.hasDefault
                THEN SetKey(options, spec.name, spec.default)
                ELSE options)

\* "Convert types": Number(value) for number options, value === true ||
\* value === 'true' for boolean ones.
ConvertTypes(optionSpecs, options) ==
    [name \in DOMAIN options |->
        LET spec == OptionSpecOf(optionSpecs, name)
        IN IF spec = <<>> THEN options[name]
           ELSE CASE spec[1].type = "number" -> ToNumber(options[name])
                  [] spec[1].type = "boolean" ->
                       JBool(options[name] = JBool(TRUE) \/ options[name] = JStr(StrTrue))
                  [] OTHER -> options[name]]

\* validateOptions(context, command, next) up to its call of next.  The
\* messages of the loop over the provided entries are in the model's key
\* order, not in the object's insertion order.
ValidateOptions(ctx, command) ==
    LET provided == ctx.options
        errors == RequiredOptionErrors(command.options, provided)
                  \o AllProvidedOptionErrors(command.options, provided,
                                             KeySeq(DOMAIN provided))
        split == SplitArrays(command.options, provided)
    IN IF errors # <<>>
       THEN [ctx |-> [ctx EXCEPT !.options = split],
             err |-> Error("Validation errors", <<>>, <<>>, <<>>, errors)]
       ELSE [ctx |-> [ctx EXCEPT !.options =
                         ConvertTypes(command.options,
                                      ApplyDefaults(command.options, split))],
             err |-> NoError]

\* logExecution(context, command, next) up to its call of next:
\* context.registry.get(LoggerToken) throws when no logger is registered.
LogExecution(ctx, command) ==
    IF ctx.hasLogger THEN [ctx |-> ctx, err |-> NoError]
    ELSE [ctx |-> ctx, err |-> Error("Service not found", <<"l", "o", "g", "g", "e", "r">>, <<>>, <<>>, <<>>)]

(***************************************************************************)
(* createCommand: the execute of a built command                           *)
(***************************************************************************)

\* A Middleware of a spec or of the router: what it does with its
\* continuation ("next": awaits it, "stop": returns without calling it,
\* "throw": throws before calling it).
Middleware(id, does) == [id |-> id, does |-> does]

\* Handlers that throw when they are called; every other handler returns.
\* "boom" throws a plain Error, "offline" a NetworkError.
ThrowingHandlers == {"boom", "offline"}

InnerChainBuiltinsFirst(command) ==
    << [step |-> "validateArgs", mw |-> Middleware("validateArgs", "next")],
       [step |-> "validateOptions", mw |-> Middleware("validateOptions", "next")],
       [step |-> "logExecution", mw |-> Middleware("logExecution", "next")] >>
    \o [i \in 1..Len(command.middleware) |->
          [step |-> "middleware", mw |-> command.middleware[i]]]

\* const middleware = [...(spec.middleware || []), validateArgs,
\*                     validateOptions, logExecution]
InnerChain(command) ==
    [i \in 1..Len(command.middleware) |->
        [step |-> "middleware", mw |-> command.middleware[i]]]
    \o << [step |-> "validateArgs", mw |-> Middleware("validateArgs", "next")],
          [step |-> "validateOptions", mw |-> Middleware("validateOptions", "next")],
          [step |-> "logExecution", mw |-> Middleware("logExecution", "next")] >>

\* The outcome of a step that ran `first` and then what followed it.
After(first, following) ==
    Outcome(first \o following.events, following.ctx, following.err)

\* next() of the inner chain at index i: the chain runs until a middleware
\* does not call its continuation or something throws.
RECURSIVE RunInnerChain(_, _, _, _)
RunBuiltin(chain, command, r, i, here) ==
    IF r.err # NoError THEN Outcome(<<here>>, r.ctx, r.err)
    ELSE After(<<here>>, RunInnerChain(chain, command, r.ctx, i + 1))

RunInnerChain(chain, command, ctx, i) ==
    IF i > Len(chain) THEN Outcome(<<>>, ctx, NoError)
    ELSE
      LET link == chain[i]
          here == Event(link.step, link.mw.id, ctx)
      IN CASE link.step = "validateArgs" ->
                RunBuiltin(chain, command, ValidateArgs(ctx, command), i, here)
           [] link.step = "validateOptions" ->
                RunBuiltin(chain, command, ValidateOptions(ctx, command), i, here)
           [] link.step = "logExecution" ->
                RunBuiltin(chain, command, LogExecution(ctx, command), i, here)
           [] link.step = "middleware" ->
                CASE link.mw.does = "next" ->
                       After(<<here>>, RunInnerChain(chain, command, ctx, i + 1))
                  [] link.mw.does = "stop" -> Outcome(<<here>>, ctx, NoError)
                  [] link.mw.does = "throw" ->
                       Outcome(<<here>>, ctx,
                               Error("Middleware threw", <<>>, <<>>, <<>>, <<>>))

\* Calling a handler: the event, and its throw if it is a throwing one.
CallHandler(handler, ctx) ==
    Outcome(<<Event("handler", handler, ctx)>>, ctx,
            IF handler \in ThrowingHandlers
            THEN Error(IF handler = "offline" THEN "NetworkError" ELSE "Handler threw",
                       <<>>, <<>>, <<>>, <<>>)
            ELSE NoError)

\* execute(context) of the object createCommand returns: await next(), and
\* once the chain has returned, spec.execute(context), or the throw
\* `Command '${spec.name}' has no execute function`.
AfterInnerChain(command, chain) ==
    IF chain.err # NoError THEN chain
    ELSE IF command.handler = "none"
    THEN Outcome(chain.events, chain.ctx,
                 Error("has no execute function", <<>>, <<command.name>>, <<>>, <<>>))
    ELSE After(chain.events, CallHandler(command.handler, chain.ctx))

BuiltExecute(command, ctx) ==
    AfterInnerChain(command, RunInnerChain(InnerChain(command), command, ctx, 1))

\* A CommandSpec as handed to createCommand.
CommandSpec(name, aliases, hasSubs, subcommands, handler, args, options, middleware) ==
    [name |-> name, aliases |-> aliases, hasSubs |-> hasSubs,
     subcommands |-> subcommands, handler |-> handler, args |-> args,
     options |-> options, middleware |-> middleware]

\* createCommand(spec): name, description, usage, examples, options, args,
\* aliases and execute; no other field of the spec is copied.
CreateCommand(spec) ==
    Command("built", spec.name, spec.aliases, FALSE, <<>>, TRUE, spec.handler,
            spec.args, spec.options, spec.middleware)

\* Bounds of the executions of a built command on its own: the number of
\* declared arguments and of positional strings.
MaxArgSpecs == 2
MaxPositional == 2

\* The declared arguments: the names by position, and what a spec may say.
ArgNames == <<"name", "count", "extra", "more">>

ArgKinds ==
    { [type |-> "string", required |-> TRUE, validate |-> "none"],
      [type |-> "string", required |-> FALSE, validate |-> "none"],
      [type |-> "number", required |-> TRUE, validate |-> "none"],
      [type |-> "number", required |-> FALSE, validate |-> "none"],
      [type |-> "string", required |-> FALSE, validate |-> "msg"],
      [type |-> "number", required |-> TRUE, validate |-> "falsy"],
      [type |-> "string", required |-> TRUE, validate |-> "ok"] }

ArgSpecLists ==
    UNION { { [i \in 1..n |-> ArgSpec(ArgNames[i], kinds[i].type, kinds[i].required,
                                       kinds[i].validate)] :
              kinds \in [1..n -> ArgKinds] } : n \in 0..MaxArgSpecs }

\* Positional strings: "", "A", "12", "-1", "1a".
PositionalTokens == { <<>>, <<"A">>, <<"1", "2">>, <<"-", "1">>, <<"1", "a">> }

PositionalVectors == UNION { [1..n -> PositionalTokens] : n \in 0..MaxPositional }

\* The spec middleware lists tried.
SpecMiddlewareLists ==
    { <<>>, <<Middleware("m1", "next")>>, <<Middleware("m1", "stop")>>,
      <<Middleware("m1", "next"), Middleware("m2", "throw")>> }

BuiltInit ==
    built = [done |-> FALSE,
             command |-> CreateCommand(CommandSpec(<<>>, <<>>, FALSE, <<>>, "none",
                                                   <<>>, <<>>, <<>>)),
             ctx |-> NoContext,
             out |-> Outcome(<<>>, NoContext, NoError)]

\* The declared options tried: a number with a default and a boolean
\* without one; and the option maps a caller hands in.
DeclaredOptions ==
    << OptionSpec(<<"p">>, "number", FALSE, TRUE, JNum(80), "none"),
       OptionSpec(<<"f">>, "boolean", FALSE, FALSE, JUndefined, "none") >>

OptionMaps ==
    { EmptyRecord,
      SetKey(EmptyRecord, <<"p">>, JStr(<<"1", "2">>)),
      SetKey(EmptyRecord, <<"p">>, JStr(<<"1", "a">>)),
      SetKey(EmptyRecord, <<"f">>, JBool(TRUE)),
      SetKey(SetKey(EmptyRecord, <<"p">>, JBool(TRUE)), <<"f">>, JStr(StrTrue)),
      SetKey(EmptyRecord, <<"f">>, JStr(<<"x">>)) }

\* The executions tried: every declared argument list against every
\* positional vector without options, and the declared options against
\* every option map with one optional number argument.
BuiltInput(argSpecs, optionSpecs, middleware, args, options, hasLogger) ==
    [argSpecs |-> argSpecs, optionSpecs |-> optionSpecs, middleware |-> middleware,
     args |-> args, options |-> options, hasLogger |-> hasLogger]

BuiltInputs ==
    { BuiltInput(argSpecs, <<>>, middleware, args, EmptyRecord, hasLogger) :
        argSpecs \in ArgSpecLists, middleware \in SpecMiddlewareLists,
        args \in PositionalVectors, hasLogger \in BOOLEAN }
    \cup
    { BuiltInput(<<ArgSpec("count", "number", FALSE, "none")>>, DeclaredOptions,
                 middleware, args, options, TRUE) :
        middleware \in SpecMiddlewareLists,
        args \in {<<>>, << <<"1", "2">> >>}, options \in OptionMaps }

\* command.execute(context) for a command built from a spec with the given
\* args, options and middleware, on a context with the given positional
\* strings and option map.
CallBuiltExecute(input) ==
    /\ LET command == CreateCommand(CommandSpec(<<"t">>, <<>>, FALSE, <<>>, "h",
                                                input.argSpecs, input.optionSpecs,
                                                input.middleware))
           ctx == Context(input.args, input.options, input.hasLogger)
       IN built' = [done |-> TRUE, command |-> command, ctx |-> ctx,
                    out |-> BuiltExecute(command, ctx)]

\* One execution per behaviour.
BuiltNext ==
    /\ ~built.done
    /\ \E input \in BuiltInputs : CallBuiltExecute(input)

(***************************************************************************)
(* Command mappings and the help command                                   *)
(***************************************************************************)

\* A Record<string, CommandDefinition>: its entries <<key, definition>> in
\* the order of Object.entries.
EntryKeys(entries) == [i \in 1..Len(entries) |-> entries[i][1]]

HasEntry(entries, key) == \E i \in 1..Len(entries) : entries[i][1] = key

\* entries[key], for a key that the object has
EntryOf(entries, key) ==
    entries[CHOOSE i \in 1..Len(entries) : entries[i][1] = key][2]

\* entries[key] = definition
SetEntry(entries, key, definition) ==
    IF HasEntry(entries, key)
    THEN [i \in 1..Len(entries) |->
             IF entries[i][1] = key THEN <<key, definition>> ELSE entries[i]]
    ELSE Append(entries, <<key, definition>>)

\* A lazy command: a loader that resolves to the given command.
LazyCommand(loader, command) ==
    [Command("lazy", <<>>, <<>>, FALSE, <<>>, FALSE, loader, <<>>, <<>>, <<>>)
        EXCEPT !.loads = <<command>>]

IsLazy(definition) == definition.kind = "lazy"

\* await commandDef(): the loader runs and yields its command.
LoadEvent(definition) == Event("loader", definition.handler, NoContext)

\* The names 'help' and 'version'.
HelpName == <<"h", "e", "l", "p">>
VersionName == <<"v", "e", "r", "s", "i", "o", "n">>

\* createHelpCommand({name, commands, options}): a built command whose
\* handler renders help from the commands object it was given (view).
CreateHelpCommand(view) ==
    [CreateCommand(CommandSpec(HelpName, <<>>, FALSE, <<>>, "help", <<>>,
         << OptionSpec(<<"e", "x", "a", "m", "p", "l", "e", "s">>, "boolean", FALSE, FALSE, JUndefined, "none"),
            OptionSpec(<<"j", "s", "o", "n">>, "boolean", FALSE, FALSE, JUndefined, "none") >>,
         <<>>))
        EXCEPT !.kind = "help", !.view = view]

\* createVersionCommand({version, name})
CreateVersionCommand ==
    CreateCommand(CommandSpec(VersionName, <<>>, FALSE, <<>>, "version", <<>>,
        << OptionSpec(<<"v", "e", "r", "b", "o", "s", "e">>, "boolean", FALSE, FALSE, JUndefined, "none") >>,
        <<>>))

\* The for loop of the help handler: from command, follow args[i..] through
\* the subcommands; the command reached, or the unknown-subcommand throw.
RECURSIVE HelpNavigate(_, _, _, _)
HelpNavigate(command, path, args, i) ==
    IF i > Len(args) THEN [command |-> command, path |-> path, err |-> NoError]
    ELSE IF command.hasSubs /\ HasEntry(command.subcommands, args[i])
    THEN HelpNavigate(EntryOf(command.subcommands, args[i]),
                      Append(path, args[i]), args, i + 1)
    ELSE [command |-> command, path |-> path,
          err |-> Error("Unknown subcommand", args[i], path, <<>>, <<>>)]

\* formatCommandHelp(command): the rendered help of the command reached.
HelpRendered(events, reached, ctx) ==
    IF reached.err # NoError THEN Outcome(events, ctx, reached.err)
    ELSE Outcome(Append(events,
                    EventAt("render", "command", reached.path,
                            IF reached.command.hasSubs
                            THEN EntryKeys(reached.command.subcommands) ELSE <<>>,
                            ctx)),
                 ctx, NoError)

\* The handler of the help command over the entries of the object it views.
HelpHandler(entries, ctx) ==
    IF Len(ctx.args) > 0
    THEN IF ~HasEntry(entries, ctx.args[1])
         THEN Outcome(<<>>, ctx, Error("Unknown command", ctx.args[1], <<>>, <<>>, <<>>))
         ELSE LET command == EntryOf(entries, ctx.args[1])
              IN IF IsLazy(command)
                 THEN HelpRendered(<<LoadEvent(command)>>,
                          HelpNavigate(command.loads[1], <<ctx.args[1]>>, ctx.args, 2), ctx)
                 ELSE HelpRendered(<<>>,
                          HelpNavigate(command, <<ctx.args[1]>>, ctx.args, 2), ctx)
    ELSE Outcome(<<EventAt("render", "general", <<>>, EntryKeys(entries), ctx)>>,
                 ctx, NoError)

\* createCommand.execute for the help command: the inner chain, then the
\* help handler.
HelpAfterInnerChain(entries, chain) ==
    IF chain.err # NoError THEN chain
    ELSE After(chain.events, HelpHandler(entries, chain.ctx))

\* An execute that validates and binds for every command that has an
\* execute function, whoever made it.
ExecuteValidated(heap, command, ctx) ==
    CASE command.kind = "plain" -> BuiltExecute(command, ctx)
      [] command.kind = "built" -> BuiltExecute(command, ctx)
      [] command.kind = "help" ->
           HelpAfterInnerChain(heap[command.view],
               RunInnerChain(InnerChain(command), command, ctx, 1))

\* command.execute(context) for a resolved Command object; heap maps
\* every commands object to its entries.
Execute(heap, command, ctx) ==
    CASE command.kind = "plain" -> CallHandler(command.handler, ctx)
      [] command.kind = "built" -> BuiltExecute(command, ctx)
      [] command.kind = "help" ->
           HelpAfterInnerChain(heap[command.view],
               RunInnerChain(InnerChain(command), command, ctx, 1))

(***************************************************************************)
(* CommandRouter                                                           *)
(***************************************************************************)

\* A CommandRouter: the commands object it was constructed with (by
\* reference), its middleware, which hooks are configured and its
\* routingOptions.  hasLogger: whether its registry holds a logger
\* registered with register (as createCLI and mockRegistry do), so that
\* registry.get(LoggerToken) returns it and changes nothing.
Router(commands, middleware, hooks, customRouter, defaultCommand, defaultHandler, beforeExecute, hasLogger) ==
    [made |-> TRUE, commands |-> commands, middleware |-> middleware,
     hooks |-> hooks, customRouter |-> customRouter,
     defaultCommand |-> defaultCommand, defaultHandler |-> defaultHandler,
     beforeExecute |-> beforeExecute, hasLogger |-> hasLogger]

Hooks(onBeforeRoute, onAfterRoute, onError) ==
    [onBeforeRoute |-> onBeforeRoute, onAfterRoute |-> onAfterRoute,
     onError |-> onError, onErrorThrows |-> FALSE]

\* The same hooks with an onError that throws instead of returning.
ThrowingOnError(hooks) == [hooks EXCEPT !.onError = TRUE, !.onErrorThrows = TRUE]

\* router.use(middleware)
Use(rt, middleware) == [rt EXCEPT !.middleware = Append(@, middleware)]

\* args.filter(arg => !arg.startsWith('-'))
RECURSIVE NonFlags(_)
NonFlags(args) ==
    IF args = <<>> THEN <<>>
    ELSE IF StartsWith(Head(args), <<"-">>) THEN NonFlags(Tail(args))
    ELSE <<Head(args)>> \o NonFlags(Tail(args))

\* The RouteContext handed to the hooks: commandName, args, options.
RouteContext(commandName, args, options) ==
    [commandName |-> commandName, args |-> args, options |-> options]

HookEvent(hook, context) ==
    EventAt("hook", hook, <<context.commandName>>, <<>>,
            Context(context.args, context.options, FALSE))

\* findByAlias(alias): the index of the first entry, in Object.entries
\* order, that is not a loader and lists the alias; 0 when there is none.
FindByAlias(entries, alias) ==
    LET hits == { i \in 1..Len(entries) :
                    /\ ~IsLazy(entries[i][2])
                    /\ \E j \in 1..Len(entries[i][2].aliases) :
                          entries[i][2].aliases[j] = alias }
    IN IF hits = {} THEN 0 ELSE CHOOSE i \in hits : \A j \in hits : i <= j

\* next() of the outer chain at index i; path is subcommandPath, whose
\* join(' ') the error message quotes.
RECURSIVE RunOuterChain(_, _, _, _, _, _)
RunOuterChain(rt, heap, command, ctx, path, i) ==
    IF i > Len(rt.middleware)
    THEN IF ~command.hasExecute
         THEN Outcome(<<>>, ctx, Error("requires a subcommand", <<>>, path, <<>>, <<>>))
         ELSE Execute(heap, command, ctx)
    ELSE LET mw == rt.middleware[i]
             here == Event("outer", mw.id, ctx)
         IN CASE mw.does = "next" ->
                   After(<<here>>, RunOuterChain(rt, heap, command, ctx, path, i + 1))
              [] mw.does = "stop" -> Outcome(<<here>>, ctx, NoError)
              [] mw.does = "throw" ->
                   Outcome(<<here>>, ctx, Error("Middleware threw", <<>>, <<>>, <<>>, <<>>))

\* routingOptions.beforeExecute({command, args, options}): null, or the
\* transformed {command, args, options}.
\*   "swap": sends every command to 'run' with the args reversed and the
\*           options emptied
NoTransform == [some |-> FALSE, command |-> <<>>, args |-> <<>>, options |-> EmptyRecord]

Reverse(seq) == [i \in 1..Len(seq) |-> seq[Len(seq) + 1 - i]]

BeforeExecute(hook, commandName, args, options) ==
    CASE hook = "none" -> NoTransform
      [] hook = "null" -> NoTransform
      [] hook = "swap" ->
           [some |-> TRUE, command |-> <<"r", "u", "n">>, args |-> Reverse(args),
            options |-> EmptyRecord]

\* The non-flag tokens, leaving out a token that directly follows a flag.
RECURSIVE NonFlagsNorValues(_)
NonFlagsNorValues(args) ==
    IF args = <<>> THEN <<>>
    ELSE IF StartsWith(Head(args), <<"-">>)
    THEN IF Len(args) >= 2 /\ ~StartsWith(args[2], <<"-">>)
         THEN NonFlagsNorValues(Tail(Tail(args)))
         ELSE NonFlagsNorValues(Tail(args))
    ELSE <<Head(args)>> \o NonFlagsNorValues(Tail(args))

\* An executeCommand that keeps the values of options out of the
\* positional args.
ExecuteCommandWithoutValues(rt, heap, commandDef, commandName, remainingArgs, options, path) ==
    LET resolvedCommand == IF IsLazy(commandDef) THEN commandDef.loads[1] ELSE commandDef
        loaded == IF IsLazy(commandDef) THEN <<LoadEvent(commandDef)>> ELSE <<>>
        args == NonFlagsNorValues(remainingArgs)
        transformed == BeforeExecute(rt.beforeExecute, commandName, args, options)
        called == IF rt.beforeExecute = "none" THEN <<>>
                  ELSE <<EventAt("hook", "beforeExecute", <<commandName>>, <<>>,
                                 Context(args, options, FALSE))>>
        commandContext == IF transformed.some
                          THEN Context(transformed.args, transformed.options, rt.hasLogger)
                          ELSE Context(args, options, rt.hasLogger)
    IN After(loaded \o called,
             RunOuterChain(rt, heap, resolvedCommand, commandContext, path, 1))

\* executeCommand(commandDef, commandName, remainingArgs, context,
\* subcommandPath)
ExecuteCommand(rt, heap, commandDef, commandName, remainingArgs, options, path) ==
    LET resolvedCommand == IF IsLazy(commandDef) THEN commandDef.loads[1] ELSE commandDef
        loaded == IF IsLazy(commandDef) THEN <<LoadEvent(commandDef)>> ELSE <<>>
        args == NonFlags(remainingArgs)
        transformed == BeforeExecute(rt.beforeExecute, commandName, args, options)
        called == IF rt.beforeExecute = "none" THEN <<>>
                  ELSE <<EventAt("hook", "beforeExecute", <<commandName>>, <<>>,
                                 Context(args, options, FALSE))>>
        commandContext == IF transformed.some
                          THEN Context(transformed.args, transformed.options, rt.hasLogger)
                          ELSE Context(args, options, rt.hasLogger)
    IN After(loaded \o called,
             RunOuterChain(rt, heap, resolvedCommand, commandContext, path, 1))

\* routingOptions.customRouter(args): null, or a CustomRouterResult.
\*   "bypass":  args[0] === 'run' with a flag among the args is sent to
\*              'run' with args.slice(1) and skipNormalRouting
\*   "proxy":   every vector that does not start with 'dns' is sent to 'dns'
\*              with the full args, without skipNormalRouting
\*   "missing": every vector is sent to a command the mapping does not
\*              have, with skipNormalRouting
NoCustomResult == [some |-> FALSE, command |-> <<>>, args |-> <<>>, skip |-> FALSE]

CustomRouter(hook, args) ==
    CASE hook = "none" -> NoCustomResult
      [] hook = "bypass" ->
           IF /\ Len(args) > 0
              /\ args[1] = <<"r", "u", "n">>
              /\ \E i \in 1..Len(args) : StartsWith(args[i], <<"-">>)
           THEN [some |-> TRUE, command |-> <<"r", "u", "n">>, args |-> Tail(args),
                 skip |-> TRUE]
           ELSE NoCustomResult
      [] hook = "proxy" ->
           IF Len(args) > 0 /\ args[1] # <<"d", "n", "s">>
           THEN [some |-> TRUE, command |-> <<"d", "n", "s">>, args |-> args,
                 skip |-> FALSE]
           ELSE NoCustomResult
      [] hook = "missing" ->
           [some |-> TRUE, command |-> <<"n", "o", "p", "e">>, args |-> args,
            skip |-> TRUE]
      [] hook = "alias" ->
           IF Len(args) > 0
           THEN [some |-> TRUE, command |-> <<"d">>, args |-> Tail(args), skip |-> TRUE]
           ELSE NoCustomResult
      [] hook = "lazy" ->
           IF Len(args) > 0 /\ args[1] = <<"b", "o", "g", "u", "s">>
           THEN [some |-> TRUE, command |-> <<"l", "z">>, args |-> Tail(args), skip |-> TRUE]
           ELSE NoCustomResult

\* The end of route after executeCommand returned: the onAfterRoute hook.
AfterRoute(rt, context, out) ==
    IF out.err = NoError /\ rt.hooks.onAfterRoute
    THEN Outcome(Append(out.events, HookEvent("onAfterRoute", context)), out.ctx, NoError)
    ELSE out

\* The help branch: helpCommand.execute({args: [commandName], options: {},
\* registry}); a loader is resolved first, and a help command without
\* execute does nothing.
ShowHelp(rt, heap, helpCommand, commandName) ==
    LET resolvedHelp == IF IsLazy(helpCommand) THEN helpCommand.loads[1] ELSE helpCommand
        loaded == IF IsLazy(helpCommand) THEN <<LoadEvent(helpCommand)>> ELSE <<>>
        helpContext == Context(<<commandName>>, EmptyRecord, rt.hasLogger)
    IN IF resolvedHelp.hasExecute
       THEN After(loaded, Execute(heap, resolvedHelp, helpContext))
       ELSE Outcome(loaded, helpContext, NoError)

\* route from "If command has subcommands but no execute function and no
\* subcommand was provided" on.
RouteExecute(rt, heap, context, commandDef, commandName, remainingArgs, path) ==
    LET entries == heap[rt.commands]
    IN IF /\ commandDef.hasSubs
          /\ ~commandDef.hasExecute
          /\ NonFlags(remainingArgs) = <<>>
          /\ HasEntry(entries, HelpName)
       THEN ShowHelp(rt, heap, EntryOf(entries, HelpName), commandName)
       ELSE AfterRoute(rt, context,
                ExecuteCommand(rt, heap, commandDef, commandName, remainingArgs,
                               context.options, path))

\* The throw of the subcommand lookup.
UnknownSubcommand(commandDef, commandName, potentialSubcommand) ==
    Outcome(<<>>, NoContext,
        Error("Unknown subcommand", potentialSubcommand, <<commandName>>,
              EntryKeys(commandDef.subcommands), <<>>))

\* Whether the subcommand lookup looks remainingArgs[0] up, and finds it.
LooksUp(commandDef, remainingArgs) ==
    /\ commandDef.hasSubs
    /\ Len(remainingArgs) > 0
    /\ ~StartsWith(remainingArgs[1], <<"-">>)

Matches(commandDef, remainingArgs) ==
    LooksUp(commandDef, remainingArgs)
        /\ HasEntry(commandDef.subcommands, remainingArgs[1])

\* A subcommand lookup that descends without consuming the matched argument.
RouteSubcommandsKeepArg(rt, heap, context, commandDef, commandName, remainingArgs, path) ==
    LET matches == Matches(commandDef, remainingArgs)
    IN IF LooksUp(commandDef, remainingArgs) /\ ~matches /\ ~commandDef.hasExecute
       THEN UnknownSubcommand(commandDef, commandName, remainingArgs[1])
       ELSE RouteExecute(rt, heap, context,
                IF matches THEN EntryOf(commandDef.subcommands, remainingArgs[1])
                ELSE commandDef,
                commandName, remainingArgs,
                IF matches THEN Append(path, remainingArgs[1]) ELSE path)

\* A subcommand lookup that lets an unmatched name through to the parent.
RouteSubcommandsNoError(rt, heap, context, commandDef, commandName, remainingArgs, path) ==
    LET matches == Matches(commandDef, remainingArgs)
    IN RouteExecute(rt, heap, context,
           IF matches THEN EntryOf(commandDef.subcommands, remainingArgs[1])
           ELSE commandDef,
           commandName,
           IF matches THEN Tail(remainingArgs) ELSE remainingArgs,
           IF matches THEN Append(path, remainingArgs[1]) ELSE path)

\* A subcommand lookup that throws on every unmatched name, whether or not
\* the command has an execute of its own.
RouteSubcommandsStrict(rt, heap, context, commandDef, commandName, remainingArgs, path) ==
    LET matches == Matches(commandDef, remainingArgs)
    IN IF LooksUp(commandDef, remainingArgs) /\ ~matches
       THEN UnknownSubcommand(commandDef, commandName, remainingArgs[1])
       ELSE RouteExecute(rt, heap, context,
                IF matches THEN EntryOf(commandDef.subcommands, remainingArgs[1])
                ELSE commandDef,
                commandName,
                IF matches THEN Tail(remainingArgs) ELSE remainingArgs,
                IF matches THEN Append(path, remainingArgs[1]) ELSE path)

\* route from "Check for subcommands" on; commandDef is a resolved Command.
\* On a match commandDef becomes the subcommand, the path gains its name and
\* remainingArgs loses it; an unmatched name throws when the command has no
\* execute; in every other case nothing changes.
RouteSubcommands(rt, heap, context, commandDef, commandName, remainingArgs, path) ==
    LET matches == Matches(commandDef, remainingArgs)
    IN IF LooksUp(commandDef, remainingArgs) /\ ~matches /\ ~commandDef.hasExecute
       THEN UnknownSubcommand(commandDef, commandName, remainingArgs[1])
       ELSE RouteExecute(rt, heap, context,
                IF matches THEN EntryOf(commandDef.subcommands, remainingArgs[1])
                ELSE commandDef,
                commandName,
                IF matches THEN Tail(remainingArgs) ELSE remainingArgs,
                IF matches THEN Append(path, remainingArgs[1]) ELSE path)

\* route from "If it's a lazy-loaded command, resolve it" on: the loader is
\* awaited and the logger fetched from the registry.
RouteResolved(rt, heap, context, commandDef, commandName, remainingArgs, path) ==
    LET loaded == IF IsLazy(commandDef) THEN <<LoadEvent(commandDef)>> ELSE <<>>
    IN IF IsLazy(commandDef) /\ ~rt.hasLogger
       THEN Outcome(loaded, NoContext,
                Error("Service not found", <<"l", "o", "g", "g", "e", "r">>, <<>>, <<>>, <<>>))
       ELSE After(loaded,
                RouteSubcommands(rt, heap, context,
                    IF IsLazy(commandDef) THEN commandDef.loads[1] ELSE commandDef,
                    commandName, remainingArgs, path))

\* routingOptions.defaultHandler({args, options: parseOptions(args)})
DefaultHandler(args) ==
    Outcome(<<Event("defaultHandler", "defaultHandler",
                    Context(args, ParseOptions(args), FALSE))>>, NoContext, NoError)

\* commandDef while it is undefined.
NoCommand == Command("plain", <<>>, <<>>, FALSE, <<>>, FALSE, "none", <<>>, <<>>, <<>>)

\* The resolution with the default handler tried before the default command.
ResolutionHandlerFirst(rt, entries, args, commandName, restArgs) ==
    LET aliased == FindByAlias(entries, commandName)
        found(how, commandDef, name, remainingArgs) ==
            [how |-> how, commandDef |-> commandDef, commandName |-> name,
             remainingArgs |-> remainingArgs]
    IN IF HasEntry(entries, commandName)
       THEN found("command", EntryOf(entries, commandName), commandName, restArgs)
       ELSE IF aliased # 0
       THEN found("command", entries[aliased][2], commandName, restArgs)
       ELSE IF rt.defaultHandler
       THEN found("defaultHandler", NoCommand, commandName, args)
       ELSE IF rt.defaultCommand # <<>>
       THEN IF HasEntry(entries, rt.defaultCommand)
            THEN found("command", EntryOf(entries, rt.defaultCommand),
                       rt.defaultCommand, args)
            ELSE found("Default command not found", NoCommand, rt.defaultCommand, args)
       ELSE found("Unknown command", NoCommand, commandName, restArgs)

\* What the resolution of commandName selects: the entry under that key,
\* else the first eager command with that alias, else the default command
\* (which is given the full args), else the default handler, else nothing.
Resolution(rt, entries, args, commandName, restArgs) ==
    LET aliased == FindByAlias(entries, commandName)
        found(how, commandDef, name, remainingArgs) ==
            [how |-> how, commandDef |-> commandDef, commandName |-> name,
             remainingArgs |-> remainingArgs]
    IN IF HasEntry(entries, commandName)
       THEN found("command", EntryOf(entries, commandName), commandName, restArgs)
       ELSE IF aliased # 0
       THEN found("command", entries[aliased][2], commandName, restArgs)
       ELSE IF rt.defaultCommand # <<>>
       THEN IF HasEntry(entries, rt.defaultCommand)
            THEN found("command", EntryOf(entries, rt.defaultCommand),
                       rt.defaultCommand, args)
            ELSE found("Default command not found", NoCommand, rt.defaultCommand, args)
       ELSE IF rt.defaultHandler
       THEN found("defaultHandler", NoCommand, commandName, args)
       ELSE found("Unknown command", NoCommand, commandName, restArgs)

\* route from "Resolve command (handle lazy loading)" on.
RouteNormal(rt, heap, args, context, commandName, restArgs) ==
    LET found == Resolution(rt, heap[rt.commands], args, commandName, restArgs)
    IN CASE found.how = "command" ->
              RouteResolved(rt, heap, context, found.commandDef, found.commandName,
                            found.remainingArgs, <<found.commandName>>)
         [] found.how = "defaultHandler" ->
              AfterRoute(rt, context, DefaultHandler(args))
         [] OTHER ->
              Outcome(<<>>, NoContext,
                  Error(found.how, found.commandName, <<>>, <<>>, <<>>))

\* The try block of route.
RouteTry(rt, heap, args) ==
    LET commandName == IF Len(args) > 0 THEN args[1] ELSE HelpName
        restArgs == IF Len(args) > 0 THEN Tail(args) ELSE <<>>
        customResult == CustomRouter(rt.customRouter, args)
        context == IF customResult.some
                   THEN RouteContext(customResult.command, customResult.args,
                                     ParseOptions(customResult.args))
                   ELSE RouteContext(commandName, restArgs, ParseOptions(restArgs))
        before == IF rt.hooks.onBeforeRoute
                  THEN <<HookEvent("onBeforeRoute",
                            RouteContext(commandName, restArgs, ParseOptions(restArgs)))>>
                  ELSE <<>>
        entries == heap[rt.commands]
    IN IF customResult.some /\ customResult.skip /\ HasEntry(entries, context.commandName)
       THEN After(before,
                ExecuteCommand(rt, heap, EntryOf(entries, context.commandName),
                               context.commandName, context.args, context.options,
                               <<context.commandName>>))
       ELSE After(before,
                RouteNormal(rt, heap, args, context, context.commandName, context.args))

\* route(args): the try block, and the catch with the onError hook.
\* caught is the error the hook was handed (NoError when none was caught).
Route(rt, heap, args) ==
    LET out == RouteTry(rt, heap, args)
    IN IF out.err # NoError /\ rt.hooks.onError
       THEN [events |-> Append(out.events, Event("hook", "onError", out.ctx)),
             ctx |-> out.ctx,
             err |-> IF rt.hooks.onErrorThrows
                     THEN Error("onError threw", <<>>, <<>>, <<>>, <<>>)
                     ELSE NoError,
             caught |-> out.err]
       ELSE [events |-> out.events, ctx |-> out.ctx, err |-> out.err,
             caught |-> NoError]

\* ---- The commands the routers of this model are given ----

\* The names and argument tokens these commands are routed by.
Token ==
    [dns |-> <<"d", "n", "s">>, d |-> <<"d">>, add |-> <<"a", "d", "d">>,
     list |-> <<"l", "i", "s", "t">>, ns |-> <<"n", "s">>, run |-> <<"r", "u", "n">>,
     lz |-> <<"l", "z">>, greet |-> <<"g", "r", "e", "e", "t">>,
     bogus |-> <<"b", "o", "g", "u", "s">>, nope |-> <<"n", "o", "p", "e">>,
     fail |-> <<"f", "a", "i", "l">>, sync |-> <<"s", "y", "n", "c">>,
     ping |-> <<"p", "i", "n", "g">>, deploy |-> <<"d", "e", "p", "l", "o", "y">>,
     flagV |-> <<"-", "-", "v">>, down |-> <<"d", "o", "w", "n">>, l |-> <<"l">>,
     flagEq |-> <<"-", "-", "k", "=", "x">>, flagP |-> <<"-", "p">>]

\* A Command object literal with an execute function and no subcommands.
Leaf(name, handler) ==
    Command("plain", name, <<>>, FALSE, <<>>, TRUE, handler, <<>>, <<>>, <<>>)

\* dns: subcommands add (which declares a required argument domain and an
\* option p with a default, and has a subcommand ns of its own) and list,
\* no execute, alias d.
DnsCommand ==
    Command("plain", Token.dns, <<Token.d>>, TRUE,
        << <<Token.add, Command("plain", Token.add, <<>>, TRUE, << <<Token.ns, Leaf(Token.ns, "dns.add.ns")>> >>,
                          TRUE, "dns.add",
                          <<ArgSpec("domain", "string", TRUE, "none")>>,
                          <<OptionSpec(<<"p">>, "number", FALSE, TRUE, JNum(80), "none")>>,
                          <<>>)>>,
           <<Token.list, Leaf(Token.list, "dns.list")>> >>,
        FALSE, "none", <<>>, <<>>, <<>>)

\* run: an execute of its own, a declared required argument target and a
\* subcommand add.
RunCommand ==
    Command("plain", Token.run, <<>>, TRUE, << <<Token.add, Leaf(Token.add, "run.add")>> >>,
            TRUE, "run", <<ArgSpec("target", "string", TRUE, "none")>>, <<>>, <<>>)

\* lz: a loader that resolves to a command with alias l, a subcommand add
\* and no execute.
LzCommand ==
    LazyCommand("lz.loader",
        Command("plain", Token.lz, <<Token.l>>, TRUE, << <<Token.add, Leaf(Token.add, "lz.add")>> >>,
                FALSE, "none", <<>>, <<>>, <<>>))

\* greet: built by createCommand from a spec with one required argument
\* and a subcommand add, itself built by createCommand.
GreetSpec ==
    CommandSpec(Token.greet, <<>>, TRUE,
        << <<Token.add, CreateCommand(CommandSpec(Token.add, <<>>, FALSE, <<>>,
                            "greet.add", <<>>, <<>>, <<>>))>> >>,
        "greet", <<ArgSpec("name", "string", TRUE, "none")>>, <<>>, <<>>)

GreetCommand == CreateCommand(GreetSpec)

UserCommands ==
    << <<Token.dns, DnsCommand>>, <<Token.run, RunCommand>>, <<Token.lz, LzCommand>>,
       <<Token.greet, GreetCommand>> >>

\* ---- Routers constructed directly and routed once ----

MaxRouteArgs == 3

RouteTokens ==
    {Token.dns, Token.d, Token.add, Token.ns, Token.bogus, Token.flagV, Token.flagEq,
     Token.flagP, Token.run, Token.lz, Token.greet}

RouteVectors == UNION { [1..n -> RouteTokens] : n \in 0..MaxRouteArgs }

NoHooks == Hooks(FALSE, FALSE, FALSE)

\* What a router is constructed with: whether the commands object has a
\* help command, the hooks and the routingOptions.
RouterConfig(help, hooks, customRouter, defaultCommand, defaultHandler, beforeExecute, hasLogger) ==
    [help |-> help, hooks |-> hooks, customRouter |-> customRouter,
     defaultCommand |-> defaultCommand, defaultHandler |-> defaultHandler,
     beforeExecute |-> beforeExecute, hasLogger |-> hasLogger]

RouterConfigs ==
    { RouterConfig(TRUE, NoHooks, "none", <<>>, FALSE, "none", TRUE),
      RouterConfig(FALSE, NoHooks, "none", <<>>, FALSE, "none", TRUE),
      RouterConfig(TRUE, Hooks(TRUE, TRUE, FALSE), "none", <<>>, FALSE, "none", TRUE),
      RouterConfig(TRUE, Hooks(TRUE, TRUE, TRUE), "none", <<>>, FALSE, "none", TRUE),
      RouterConfig(TRUE, NoHooks, "bypass", <<>>, FALSE, "none", TRUE),
      RouterConfig(TRUE, Hooks(TRUE, TRUE, TRUE), "bypass", <<>>, FALSE, "none", TRUE),
      RouterConfig(TRUE, NoHooks, "proxy", <<>>, FALSE, "none", TRUE),
      RouterConfig(TRUE, NoHooks, "missing", <<>>, FALSE, "none", TRUE),
      RouterConfig(TRUE, NoHooks, "alias", <<>>, FALSE, "none", TRUE),
      RouterConfig(TRUE, NoHooks, "lazy", <<>>, FALSE, "none", TRUE),
      RouterConfig(TRUE, NoHooks, "none", Token.run, TRUE, "none", TRUE),
      RouterConfig(TRUE, NoHooks, "none", Token.nope, TRUE, "none", TRUE),
      RouterConfig(TRUE, NoHooks, "none", <<>>, TRUE, "none", TRUE),
      RouterConfig(TRUE, Hooks(TRUE, TRUE, TRUE), "none", <<>>, TRUE, "none", TRUE),
      RouterConfig(TRUE, NoHooks, "none", <<>>, FALSE, "null", TRUE),
      RouterConfig(TRUE, NoHooks, "none", <<>>, FALSE, "swap", TRUE),
      RouterConfig(TRUE, NoHooks, "none", <<>>, FALSE, "none", FALSE) }

\* The middleware lists that successive use calls build up.
OuterMiddlewareLists ==
    { <<Middleware("o1", "next")>>, <<Middleware("o1", "stop")>>,
      <<Middleware("o1", "next"), Middleware("o2", "next")>> }

OuterMiddleware ==
    UNION { { list[i] : i \in 1..Len(list) } : list \in OuterMiddlewareLists }

NoRouter ==
    [Router("commands", <<>>, NoHooks, "none", <<>>, FALSE, "none", FALSE)
        EXCEPT !.made = FALSE]

NoRoute == [events |-> <<>>, ctx |-> NoContext, err |-> NoError, caught |-> NoError]

RouterInit ==
    /\ objects = [config |-> <<>>, commands |-> <<>>]
    /\ router = NoRouter
    /\ routed = [done |-> FALSE, args |-> <<>>, out |-> NoRoute]

\* new CommandRouter(commands, registry, hooks, routingOptions) over a
\* commands object that holds the user commands and, when the
\* configuration says so, a help command made over that same object.
NewRouter(config) ==
    /\ ~router.made
    /\ objects' = [objects EXCEPT !.commands =
                      IF config.help
                      THEN SetEntry(UserCommands, HelpName, CreateHelpCommand("commands"))
                      ELSE UserCommands]
    /\ router' = Router("commands", <<>>, config.hooks, config.customRouter,
                        config.defaultCommand, config.defaultHandler,
                        config.beforeExecute, config.hasLogger)
    /\ UNCHANGED routed

\* router.use(middleware)
RouterUse(middleware) ==
    /\ router.made
    /\ ~routed.done
    /\ Append(router.middleware, middleware) \in OuterMiddlewareLists
    /\ router' = Use(router, middleware)
    /\ UNCHANGED <<objects, routed>>

\* await router.route(args)
CallRoute(args) ==
    /\ routed' = [done |-> TRUE, args |-> args, out |-> Route(router, objects, args)]
    /\ UNCHANGED <<objects, router>>

RouterNext ==
    \/ \E config \in RouterConfigs : NewRouter(config)
    \/ \E middleware \in OuterMiddleware : RouterUse(middleware)
    \/ router.made /\ ~routed.done /\ \E args \in RouteVectors : CallRoute(args)

(***************************************************************************)
(* bootstrap                                                               *)
(***************************************************************************)

\* The events bootstrap adds a listener for: the two error traps and the
\* three termination signals.
BootEvents == {"uncaughtException", "unhandledRejection", "SIGINT", "SIGTERM", "SIGQUIT"}

\* The callers of bootstrap in one process (the run of two CLI instances and
\* a direct call), and how often each may call.
Callers == {"cli1", "cli2", "direct"}
MaxBootCalls == 2

BootInit ==
    /\ bootstrapped = FALSE
    /\ handlers = [e \in BootEvents |-> 0]
    /\ callers = [c \in Callers |-> [pc |-> "ready", calls |-> 0]]

\* A bootstrap without the one-shot guard.
BootstrapUnguarded ==
    /\ bootstrapped' = TRUE
    /\ handlers' = [e \in BootEvents |-> handlers[e] + 1]

\* The body of bootstrap({ registry }).  It has no await: from the test of
\* the flag to the last process.on nothing else runs.
Bootstrap ==
    IF bootstrapped
    THEN UNCHANGED <<bootstrapped, handlers>>
    ELSE /\ bootstrapped' = TRUE
         /\ handlers' = [e \in BootEvents |-> handlers[e] + 1]

\* A caller reaches `await bootstrap(...)`: the body runs, the caller waits
\* for the returned promise.
CallBootstrap(c) ==
    /\ callers[c].pc = "ready"
    /\ callers[c].calls < MaxBootCalls
    /\ Bootstrap
    /\ callers' = [callers EXCEPT ![c] = [pc |-> "awaiting", calls |-> @.calls + 1]]

\* The awaited promise is settled and the caller goes on.
ResumeCaller(c) ==
    /\ callers[c].pc = "awaiting"
    /\ callers' = [callers EXCEPT ![c].pc = "ready"]
    /\ UNCHANGED <<bootstrapped, handlers>>

BootNext ==
    \/ \E c \in Callers : CallBootstrap(c)
    \/ \E c \in Callers : ResumeCaller(c)

(***************************************************************************)
(* Plugins and their integration                                           *)
(***************************************************************************)

\* A Plugin: name, hooks (which of the four are defined), service
\* descriptors, commands (entries) and middleware.
PluginHooks(beforeInit, afterInit, beforeCommand, afterCommand) ==
    [beforeInit |-> beforeInit, afterInit |-> afterInit,
     beforeCommand |-> beforeCommand, afterCommand |-> afterCommand]

ServiceDescriptor(token, factory, lifecycle) ==
    [token |-> token, factory |-> factory, lifecycle |-> lifecycle]

Plugin(name, hooks, pluginServices, commands, middleware) ==
    [name |-> name, hooks |-> hooks, services |-> pluginServices,
     commands |-> commands, middleware |-> middleware]

\* A hook or registration step of the plugin layer, as an event.
PluginEvent(e, plugin, name) == EventAt(e, plugin, <<name>>, <<>>, NoContext)

\* The registry as one value, for the calls a CLI operation makes on it.
RegistryState ==
    [services |-> services, factories |-> factories, made |-> made,
     lastRegistered |-> lastRegistered, latest |-> latest, call |-> regCall,
     ret |-> regRet]

\* registry.register(token, service) and registry.registerFactory(token,
\* factory) on that value.
RegisterIn(reg, k, service) ==
    [reg EXCEPT !.services[k] = service, !.lastRegistered[k] = service,
                !.latest[k] = service,
                !.call = [op |-> "register", key |-> k],
                !.ret = [kind |-> "void", val |-> Absent]]

RegisterFactoryIn(reg, k, f) ==
    [reg EXCEPT !.factories[k] = f, !.latest[k] = Factory(f),
                !.call = [op |-> "registerFactory", key |-> k],
                !.ret = [kind |-> "void", val |-> Absent]]

\* integratePlugin, "Register services": a singleton's factory is called
\* and its result registered, any other factory is registered as a factory.
RECURSIVE RegisterServices(_, _, _)
RegisterServices(reg, pluginServices, i) ==
    IF i > Len(pluginServices) THEN reg
    ELSE LET service == pluginServices[i]
         IN RegisterServices(
                IF service.lifecycle = "singleton"
                THEN [RegisterIn(reg, service.token, Made(service.factory, reg.made + 1))
                         EXCEPT !.made = reg.made + 1]
                ELSE RegisterFactoryIn(reg, service.token, service.factory),
                pluginServices, i + 1)

ServiceEvents(plugin) ==
    [i \in 1..Len(plugin.services) |->
        EventAt(IF plugin.services[i].lifecycle = "singleton"
                THEN "register" ELSE "registerFactory",
                plugin.name, <<>>, <<>>, NoContext)]

\* cli.registerCommand(name, command) on the entries of the commands
\* object: the command is stored, then commands.help is replaced by a help
\* command made over the commands object.
RegisterCommandIn(entries, name, command) ==
    SetEntry(SetEntry(entries, name, command), HelpName, CreateHelpCommand("commands"))

\* integratePlugin, "Register commands"
RECURSIVE RegisterCommands(_, _, _)
RegisterCommands(entries, commands, i) ==
    IF i > Len(commands) THEN entries
    ELSE RegisterCommands(RegisterCommandIn(entries, commands[i][1], commands[i][2]),
                          commands, i + 1)

\* What integration works on: the entries of the commands object, the
\* router's middleware, the registry and the events so far.
Integration(entries, middleware, reg, events) ==
    [entries |-> entries, middleware |-> middleware, reg |-> reg, events |-> events]

\* An integration that runs both init hooks before anything is registered.
IntegratePluginHooksFirst(st, plugin) ==
    Integration(
        RegisterCommands(st.entries, plugin.commands, 1),
        st.middleware \o plugin.middleware,
        RegisterServices(st.reg, plugin.services, 1),
        st.events
          \o (IF plugin.hooks.beforeInit
              THEN <<PluginEvent("beforeInit", plugin.name, <<>>)>> ELSE <<>>)
          \o (IF plugin.hooks.afterInit
              THEN <<PluginEvent("afterInit", plugin.name, <<>>)>> ELSE <<>>)
          \o ServiceEvents(plugin)
          \o [i \in 1..Len(plugin.commands) |->
                 PluginEvent("registerCommand", plugin.name, plugin.commands[i][1])]
          \o [i \in 1..Len(plugin.middleware) |->
                 PluginEvent("useMiddleware", plugin.name, <<>>)])

\* integratePlugin(plugin)
IntegratePlugin(st, plugin) ==
    Integration(
        RegisterCommands(st.entries, plugin.commands, 1),
        st.middleware \o plugin.middleware,
        RegisterServices(st.reg, plugin.services, 1),
        st.events
          \o (IF plugin.hooks.beforeInit
              THEN <<PluginEvent("beforeInit", plugin.name, <<>>)>> ELSE <<>>)
          \o ServiceEvents(plugin)
          \o [i \in 1..Len(plugin.commands) |->
                 PluginEvent("registerCommand", plugin.name, plugin.commands[i][1])]
          \o [i \in 1..Len(plugin.middleware) |->
                 PluginEvent("useMiddleware", plugin.name, <<>>)]
          \o (IF plugin.hooks.afterInit
              THEN <<PluginEvent("afterInit", plugin.name, <<>>)>> ELSE <<>>))

\* loadAllPlugins: the for loop over this.plugins
RECURSIVE IntegrateAll(_, _, _)
IntegrateAll(st, plugins, i) ==
    IF i > Len(plugins) THEN st
    ELSE IntegrateAll(IntegratePlugin(st, plugins[i]), plugins, i + 1)

\* The indexes of the plugins that define the hook, in order.
RECURSIVE WithHook(_, _, _)
WithHook(plugins, hook, i) ==
    IF i > Len(plugins) THEN <<>>
    ELSE (IF plugins[i].hooks[hook] THEN <<i>> ELSE <<>>) \o WithHook(plugins, hook, i + 1)

\* An afterCommand round that only calls the plugin owning the command.
RunAfterCommandHooksOfOwner(plugins, commandName) ==
    LET all == WithHook(plugins, "afterCommand", 1)
        own == SelectSeq(all, LAMBDA i : HasEntry(plugins[i].commands, commandName))
    IN [k \in 1..Len(own) |-> PluginEvent("afterCommand", plugins[own[k]].name, commandName)]

\* runBeforeCommandHooks(commandName), runAfterCommandHooks(commandName)
RunBeforeCommandHooks(plugins, commandName) ==
    LET with == WithHook(plugins, "beforeCommand", 1)
    IN [k \in 1..Len(with) |->
           PluginEvent("beforeCommand", plugins[with[k]].name, commandName)]

RunAfterCommandHooks(plugins, commandName) ==
    LET with == WithHook(plugins, "afterCommand", 1)
    IN [k \in 1..Len(with) |->
           PluginEvent("afterCommand", plugins[with[k]].name, commandName)]

(***************************************************************************)
(* createCLI: registerCommand, useMiddleware, run                          *)
(***************************************************************************)

\* The structured errors: the exit code an error declares.  CLIError and
\* its subclasses carry exitCode; the classes not listed declare 1.
IsCLIError(error) ==
    error.kind \in {"CLIError", "NetworkError", "FileSystemError",
                    "AuthenticationError", "PermissionError"}

ExitCodeOf(error) ==
    CASE error.kind = "NetworkError" -> "2"
      [] error.kind = "FileSystemError" -> "3"
      [] error.kind = "AuthenticationError" -> "4"
      [] error.kind = "PermissionError" -> "5"
      [] OTHER -> "1"

\* How a process ended: who called process.exit, what was logged, the code.
Exit(by, logged, code) == [by |-> by, logged |-> logged, code |-> code]

NoExit == Exit("none", NoError, "none")

\* handleError(error, logger): logs the message and exits with the
\* exitCode of a CLIError, with 1 for anything else.
HandleError(error) ==
    Exit("handleError", error, IF IsCLIError(error) THEN ExitCodeOf(error) ELSE "1")

RunCatchWithOwnExitCode(error) ==
    Exit("run", error, IF IsCLIError(error) THEN ExitCodeOf(error) ELSE "1")

\* The catch of cli.run: logger.error(`Fatal error: ${error}`), then
\* process.exit(1).
RunCatch(error) == Exit("run", error, "1")

\* Bounds on the calls made on one CLI.
MaxRegisterCalls == 2
MaxRuns == 2
MaxLoads == 1

\* The plugins found on disk.
AuditPlugin ==
    Plugin("audit", PluginHooks(TRUE, TRUE, TRUE, TRUE),
           <<ServiceDescriptor("db", "f1", "singleton")>>,
           << <<Token.sync, Leaf(Token.sync, "audit.sync")>> >>,
           <<Middleware("audit.mw", "next")>>)

ExtraPlugin ==
    Plugin("extra", PluginHooks(TRUE, FALSE, TRUE, TRUE),
           <<ServiceDescriptor("db", "f2", "transient")>>,
           << <<Token.ping, Leaf(Token.ping, "extra.ping")>> >>, <<>>)

\* config.commands: dns, a command whose handler throws an Error, one
\* whose handler throws a NetworkError, and a command built by createCommand
\* from a spec with two middleware.
ConfigCommands ==
    << <<Token.dns, DnsCommand>>, <<Token.fail, Leaf(Token.fail, "boom")>>,
       <<Token.down, Leaf(Token.down, "offline")>>, <<Token.lz, LzCommand>>,
       <<Token.greet, CreateCommand(CommandSpec(Token.greet, <<>>, FALSE, <<>>,
                          "greet", <<>>, <<>>,
                          <<Middleware("m1", "next"), Middleware("m2", "next")>>))>> >>

\* A CLIConfig: middleware, onError ("none", or what the hook does with the
\* error it is handed: "returns" or "throws"), plugins.enabled
\* ("undefined" when plugins or enabled is not given), whether
\* plugins.autoLoad is not false, and the plugins loadPlugins would find.
CLIConfig(middleware, onError, enabled, autoLoad, disk) ==
    [middleware |-> middleware, onError |-> onError, enabled |-> enabled,
     autoLoad |-> autoLoad, disk |-> disk]

CLIConfigs ==
    { CLIConfig(<<Middleware("c1", "next")>>, "none", "true", TRUE, <<AuditPlugin, ExtraPlugin>>),
      CLIConfig(<<>>, "returns", "true", TRUE, <<AuditPlugin, ExtraPlugin>>),
      CLIConfig(<<>>, "throws", "undefined", TRUE, <<AuditPlugin>>),
      CLIConfig(<<>>, "none", "undefined", TRUE, <<AuditPlugin>>),
      CLIConfig(<<Middleware("c1", "next")>>, "none", "false", TRUE, <<AuditPlugin>>),
      CLIConfig(<<>>, "none", "true", FALSE, <<AuditPlugin, ExtraPlugin>>),
      CLIConfig(<<Middleware("c1", "stop")>>, "none", "true", TRUE, <<ExtraPlugin>>) }

\* The commands handed to registerCommand, by name.
RegisterNames == {HelpName, Token.deploy, Token.dns}

Registered(name) == Leaf(name, "registered")

\* The middleware handed to useMiddleware.
UserMiddleware == Middleware("u1", "next")

\* The argument vectors handed to run.
RunVectors ==
    { <<>>, <<Token.dns>>, <<Token.dns, Token.add>>, <<Token.dns, Token.bogus>>,
      <<Token.fail>>, <<Token.down>>, <<Token.greet>>, <<Token.sync>>, <<Token.ping, Token.flagV>>, <<Token.deploy>>,
      <<HelpName>>, <<HelpName, Token.deploy>>, <<Token.nope>>, <<Token.lz>>, <<Token.l>> }

\* What the last run did: its args, the plugins loaded, the router's
\* middleware and the entries of the commands object when route was called,
\* the loaders earlier runs had awaited, the number of service instances
\* made before and after integration, the registry's factories after it, and
\* the plugin events before and after route.
NoRun ==
    [done |-> FALSE, args |-> <<>>, plugins |-> <<>>, middleware |-> <<>>,
     entries |-> <<>>, loadedBefore |-> {}, madeBefore |-> 0, made |-> 0,
     factories |-> <<>>, before |-> <<>>, after |-> <<>>]

\* How often each init hook of each plugin has run, with the hooks among
\* the given integration events added.
InitHooks == {"beforeInit", "afterInit"} \X {"audit", "extra"}

InitHooksAfter(counts, events) ==
    [h \in InitHooks |->
        counts[h] + Len(SelectSeq(events, LAMBDA ev : ev.e = h[1] /\ ev.who = h[2]))]

\* The loaders a route call awaited.
LoadersOf(events) ==
    { events[k].who : k \in { j \in 1..Len(events) : events[j].e = "loader" } }

CLIInit ==
    cli = [made |-> FALSE, hasPlugins |-> FALSE, enabled |-> "undefined",
           autoLoad |-> FALSE, disk |-> <<>>, plugins |-> <<>>,
           registerCalls |-> 0, runs |-> 0, loads |-> 0, loaded |-> {},
           initHooks |-> [h \in InitHooks |-> 0],
           exit |-> "none",
           ended |-> NoExit, last |-> NoRun]

\* createCLI(config): the core services are registered (of the three
\* tokens the model keeps the logger), the commands object is made of help
\* (over config.commands), version and config.commands, the router is
\* constructed over it and given config.middleware; cli.plugins exists
\* unless plugins.enabled is false.
CreateCLI(config) ==
    /\ ~cli.made
    /\ ~router.made
    /\ Register("logger", 1)
    /\ objects' = [config |-> ConfigCommands,
                   commands |-> << <<HelpName, CreateHelpCommand("config")>>,
                                   <<VersionName, CreateVersionCommand>> >>
                                \o ConfigCommands]
    /\ router' = Router("commands", config.middleware,
                        IF config.onError = "throws"
                        THEN ThrowingOnError(Hooks(FALSE, FALSE, TRUE))
                        ELSE Hooks(FALSE, FALSE, config.onError = "returns"),
                        "none", <<>>, FALSE, "none", TRUE)
    /\ cli' = [cli EXCEPT !.made = TRUE, !.hasPlugins = (config.enabled # "false"),
                          !.enabled = config.enabled, !.autoLoad = config.autoLoad,
                          !.disk = config.disk]
    /\ UNCHANGED <<routed, bootVars>>

\* The process is running and the CLI exists.
Alive == cli.made /\ cli.exit = "none"

\* cli.registerCommand(name, command)
RegisterCommand(name, command) ==
    /\ Alive
    /\ cli.registerCalls < MaxRegisterCalls
    /\ objects' = [objects EXCEPT !.commands = RegisterCommandIn(@, name, command)]
    /\ cli' = [cli EXCEPT !.registerCalls = @ + 1]
    /\ UNCHANGED <<regVars, router, routed, bootVars>>

\* cli.useMiddleware(middleware)
UseMiddleware(middleware) ==
    /\ Alive
    /\ \A i \in 1..Len(router.middleware) : router.middleware[i] # middleware
    /\ router' = Use(router, middleware)
    /\ UNCHANGED <<regVars, objects, routed, bootVars, cli>>

\* The registry after the calls of a CLI operation.
RegistryBecomes(reg) ==
    /\ services' = reg.services
    /\ factories' = reg.factories
    /\ made' = reg.made
    /\ lastRegistered' = reg.lastRegistered
    /\ latest' = reg.latest
    /\ regCall' = reg.call
    /\ regRet' = reg.ret
    /\ UNCHANGED <<invoked, cleared>>

\* The state integration starts from, and loadAllPlugins on it:
\* this.plugins = await this.loader.loadPlugins(), then every plugin is
\* integrated.
Integrating == Integration(objects.commands, router.middleware, RegistryState, <<>>)

LoadedAll == IntegrateAll(Integrating, cli.disk, 1)

\* cli.plugins.loadAllPlugins(), called directly
LoadAllPlugins ==
    /\ Alive
    /\ cli.hasPlugins
    /\ cli.loads < MaxLoads
    /\ \E st \in {LoadedAll} :
          /\ objects' = [objects EXCEPT !.commands = st.entries]
          /\ router' = [router EXCEPT !.middleware = st.middleware]
          /\ RegistryBecomes(st.reg)
          /\ cli' = [cli EXCEPT !.plugins = cli.disk, !.loads = @ + 1,
                                !.initHooks = InitHooksAfter(@, st.events)]
    /\ UNCHANGED <<routed, bootVars>>

\* cli.run(args): bootstrap; cli.plugins.initialize(), which loads all
\* plugins when plugins.enabled is true and autoLoad is not false; the
\* beforeCommand hooks; router.route(args); the afterCommand hooks.  An
\* error that escapes route is logged and the process exits with code 1.
Run(args) ==
    LET initializes == cli.hasPlugins /\ cli.enabled = "true" /\ cli.autoLoad
        plugins == IF initializes THEN cli.disk ELSE cli.plugins
        commandName == IF Len(args) > 0 THEN args[1] ELSE HelpName
    IN \E st \in {IF initializes THEN LoadedAll ELSE Integrating} :
       \E out \in {Route([router EXCEPT !.middleware = st.middleware],
                          [objects EXCEPT !.commands = st.entries], args)} :
          /\ Bootstrap
          /\ UNCHANGED callers
          /\ objects' = [objects EXCEPT !.commands = st.entries]
          /\ router' = [router EXCEPT !.middleware = st.middleware]
          /\ RegistryBecomes(st.reg)
          /\ routed' = [done |-> TRUE, args |-> args, out |-> out]
          /\ cli' = [cli EXCEPT
                  !.plugins = plugins,
                  !.runs = @ + 1,
                  !.loaded = @ \cup LoadersOf(out.events),
                  !.initHooks = InitHooksAfter(@, st.events),
                  !.exit = IF out.err # NoError THEN RunCatch(out.err).code ELSE "none",
                  !.ended = IF out.err # NoError THEN RunCatch(out.err) ELSE NoExit,
                  !.last = [done |-> TRUE, args |-> args, plugins |-> plugins,
                            middleware |-> st.middleware, entries |-> st.entries,
                            loadedBefore |-> cli.loaded,
                            madeBefore |-> made, made |-> st.reg.made,
                            factories |-> st.reg.factories,
                            before |-> st.events
                                         \o RunBeforeCommandHooks(plugins, commandName),
                            after |-> IF out.err # NoError THEN <<>>
                                      ELSE RunAfterCommandHooks(plugins, commandName)]]

\* handleError(error, logger), called by a program on an error of its own
\* (directly, or through wrapAsync).  It reads nothing but its argument, so
\* the calls made before the first run stand for every call.
ThrownErrors ==
    { Error(kind, <<>>, <<>>, <<>>, <<>>) :
        kind \in {"Handler threw", "CLIError", "NetworkError", "PermissionError"} }

CallHandleError(error) ==
    /\ Alive
    /\ cli.runs = 0
    /\ cli' = [cli EXCEPT !.exit = HandleError(error).code, !.ended = HandleError(error)]
    /\ UNCHANGED <<regVars, routerVars, bootVars>>

CLINext ==
    \/ \E config \in CLIConfigs : CreateCLI(config)
    \/ \E name \in RegisterNames : RegisterCommand(name, Registered(name))
    \/ UseMiddleware(UserMiddleware)
    \/ LoadAllPlugins
    \/ Alive /\ cli.runs < MaxRuns /\ \E args \in RunVectors : Run(args)
    \/ \E error \in ThrownErrors : CallHandleError(error)

(***************************************************************************)
(* Claims about the option parser                                          *)
(***************************************************************************)

\* The flag grammar as the specification words it. What token i binds:
\* --name=value binds name to all the text after the first "="; --name and
\* -x bind the following token if there is one that does not begin with "-",
\* and true otherwise; any other token binds nothing.
IndexOfEq(str) ==
    IF \E j \in 1..Len(str) : str[j] = "="
    THEN CHOOSE j \in 1..Len(str) :
            str[j] = "=" /\ \A h \in 1..(j - 1) : str[h] # "="
    ELSE 0

GrammarBinds(args, i) ==
    LET arg == args[i]
        following ==
            IF i + 1 <= Len(args) /\ ~StartsWith(args[i + 1], <<"-">>)
            THEN JStr(args[i + 1])
            ELSE JBool(TRUE)
    IN IF StartsWith(arg, <<"-", "-">>)
       THEN LET body == Slice(arg, 2)
                eq == IndexOfEq(body)
            IN IF eq > 0
               THEN [binds |-> TRUE, key |-> SubSeq(body, 1, eq - 1),
                     value |-> JStr(Slice(body, eq))]
               ELSE [binds |-> TRUE, key |-> body, value |-> following]
       ELSE IF StartsWith(arg, <<"-">>) /\ Len(arg) = 2
       THEN [binds |-> TRUE, key |-> Slice(arg, 1), value |-> following]
       ELSE [binds |-> FALSE, key |-> <<>>, value |-> JUndefined]

\* The option map of the grammar: each bound name has the value of the last
\* token that binds it.
GrammarOptions(args) ==
    LET binding == {i \in 1..Len(args) : GrammarBinds(args, i).binds}
        keys == {GrammarBinds(args, i).key : i \in binding}
        last(k) == CHOOSE i \in binding :
                      /\ GrammarBinds(args, i).key = k
                      /\ \A j \in binding : GrammarBinds(args, j).key = k => j <= i
    IN [k \in keys |-> GrammarBinds(args, last(k)).value]

\* C3: for every argument vector, parseOptions returns exactly the option
\* map of the flag grammar, --name=value binding all the text after the first
\* "=" verbatim.
C3_ParseOptionsIsTheGrammar ==
    parseOut.done => parseOut.options = GrammarOptions(parseArgs)

(***************************************************************************)
(* Claims about built commands                                             *)
(***************************************************************************)

\* Whether the events hold one of the given kind.
Happened(events, e) == \E i \in 1..Len(events) : events[i].e = e

\* C4: when the execute of a built command reaches argument validation, a
\* required argument without a positional string makes execute fail with a
\* message that names it and the handler is not invoked; and when validation
\* passes, namedArgs binds the Nth declared name to the Nth positional
\* string, as a number for a number-typed argument, and nothing else.
C4_ArgsBindByPosition ==
    built.done /\ Happened(built.out.events, "validateArgs") =>
        LET argSpecs == built.command.args
            args == built.ctx.args
            missing == {i \in 1..Len(argSpecs) : argSpecs[i].required /\ i > Len(args)}
            bound == {i \in 1..Len(argSpecs) : i <= Len(args)}
        IN /\ missing # {} =>
                /\ built.out.err.kind = "Validation errors"
                /\ \A i \in missing :
                      \E j \in 1..Len(built.out.err.msgs) :
                          built.out.err.msgs[j] =
                              [m |-> "Missing required argument", name |-> argSpecs[i].name]
                /\ ~Happened(built.out.events, "handler")
                /\ ~built.out.ctx.hasNamed
           /\ built.out.ctx.hasNamed =>
                /\ DOMAIN built.out.ctx.namedArgs = {argSpecs[i].name : i \in bound}
                /\ \A i \in bound :
                      built.out.ctx.namedArgs[argSpecs[i].name] =
                          IF argSpecs[i].type = "number"
                          THEN ToNumber(JStr(args[i]))
                          ELSE JStr(args[i])
           /\ Happened(built.out.events, "handler") => built.out.ctx.hasNamed

\* C4 witness: two declared arguments, a string and a number, were bound to
\* the two positional strings "A" and "12" and the handler ran.
C4_Witness ==
    /\ built.done
    /\ Len(built.command.args) = 2
    /\ built.ctx.args = << <<"A">>, <<"1", "2">> >>
    /\ built.out.ctx.hasNamed
    /\ built.out.ctx.namedArgs["name"] = JStr(<<"A">>)
    /\ built.out.ctx.namedArgs["count"] = JNum(12)
    /\ Happened(built.out.events, "handler")
    /\ built.out.err = NoError

\* What is wrong with the positional string of the i-th declared argument:
\* the messages the specification asks for.
ArgViolations(argSpecs, args, i) ==
    LET argSpec == argSpecs[i]
        missing == argSpec.required /\ (i > Len(args) \/ args[i] = <<>>)
        given == ~missing /\ i <= Len(args)
        nonNumeric == given /\ argSpec.type = "number"
                            /\ StringToNumber(args[i]) = JNaN
        verdict == IF ~given \/ argSpec.validate = "none" THEN "true"
                   ELSE ValidatorResult(argSpec.validate,
                            IF argSpec.type = "number" /\ ~nonNumeric
                            THEN StringToNumber(args[i]) ELSE JStr(args[i]))
    IN IF missing THEN {[m |-> "Missing required argument", name |-> argSpec.name]}
       ELSE (IF nonNumeric THEN {[m |-> "must be a number", name |-> argSpec.name]}
             ELSE {})
            \cup (IF verdict = "string"
                  THEN {[m |-> "validator message", name |-> argSpec.name]} ELSE {})
            \cup (IF verdict = "falsy"
                  THEN {[m |-> "Invalid value for argument", name |-> argSpec.name]}
                  ELSE {})

\* C15: argument validation is not fail-fast: the one error validateArgs
\* raises carries a message for every violation of every declared argument
\* (missing required, non-numeric for a number type, rejected by the custom
\* validator with its string or with the generic message) and no other
\* message; a missing required argument yields only its missing message;
\* and on any violation namedArgs is not set and the handler is not invoked.
C15_AllArgViolationsReported ==
    built.done /\ Happened(built.out.events, "validateArgs") =>
        LET argSpecs == built.command.args
            violations == UNION { ArgViolations(argSpecs, built.ctx.args, i) :
                                    i \in 1..Len(argSpecs) }
            raised == /\ built.out.err.kind = "Validation errors"
                      /\ ~Happened(built.out.events, "validateOptions")
            msgs == IF raised THEN built.out.err.msgs ELSE <<>>
        IN /\ violations # {} <=> raised
           /\ { msgs[j] : j \in 1..Len(msgs) } = violations
           /\ Len(msgs) = Cardinality(violations)
           /\ \A i \in 1..Len(argSpecs) :
                 argSpecs[i].required /\ i > Len(built.ctx.args) =>
                    { j \in 1..Len(msgs) : msgs[j].name = argSpecs[i].name }
                        = { j \in 1..Len(msgs) :
                              msgs[j] = [m |-> "Missing required argument",
                                         name |-> argSpecs[i].name] }
           /\ violations # {} =>
                 /\ ~built.out.ctx.hasNamed
                 /\ ~Happened(built.out.events, "handler")

\* C15 witness: two declared arguments, a required number with a validator
\* that rejects with a falsy result given "1a", and a required string given
\* nothing: the one error carries three messages and the handler did not run.
C15_Witness ==
    /\ built.done
    /\ Len(built.command.args) = 2
    /\ built.command.args[1].type = "number"
    /\ built.command.args[1].validate = "falsy"
    /\ built.command.args[2].required
    /\ built.ctx.args = << <<"1", "a">> >>
    /\ built.out.err.kind = "Validation errors"
    /\ built.out.err.msgs =
           << [m |-> "must be a number", name |-> "name"],
              [m |-> "Invalid value for argument", name |-> "name"],
              [m |-> "Missing required argument", name |-> "count"] >>
    /\ ~Happened(built.out.events, "handler")

\* The values of a record under the declared names of one type.
OfType(specs, type, values) ==
    { values[specs[i].name] :
        i \in { k \in 1..Len(specs) :
                  specs[k].type = type /\ specs[k].name \in DOMAIN values } }

\* C16: whenever the user handler of a built command is invoked, both
\* built-in validations have completed on the context it is given:
\* namedArgs is set, every number-typed argument and option holds a number,
\* every boolean-typed option holds a boolean, and every declared option
\* with a default that the caller did not supply is present with its
\* default.
C16_HandlerSeesValidatedContext ==
    built.done =>
        \A k \in 1..Len(built.out.events) :
            built.out.events[k].e = "handler" =>
                LET ctx == built.out.events[k].ctx
                    optionSpecs == built.command.options
                IN /\ Happened(SubSeq(built.out.events, 1, k), "validateArgs")
                   /\ Happened(SubSeq(built.out.events, 1, k), "validateOptions")
                   /\ ctx.hasNamed
                   /\ \A v \in OfType(built.command.args, "number", ctx.namedArgs) :
                         v.t = "number"
                   /\ \A v \in OfType(optionSpecs, "number", ctx.options) :
                         v.t = "number"
                   /\ \A v \in OfType(optionSpecs, "boolean", ctx.options) :
                         v.t = "boolean"
                   /\ \A i \in 1..Len(optionSpecs) :
                         optionSpecs[i].hasDefault
                           /\ optionSpecs[i].name \notin DOMAIN built.ctx.options
                         => /\ optionSpecs[i].name \in DOMAIN ctx.options
                            /\ ctx.options[optionSpecs[i].name] = optionSpecs[i].default

(***************************************************************************)
(* Claims about the router (SpecRouter)                                    *)
(***************************************************************************)

\* The events of one kind, in order.
EventsOf(events, e) == SelectSeq(events, LAMBDA ev : ev.e = e)

\* The error a route call raised: the one it threw, or the one its catch
\* handed to the onError hook.
Raised(out) == IF out.caught # NoError THEN out.caught ELSE out.err

\* The entry that a name selects in the router's mapping, by key or by
\* alias, and the command it stands for (what a loader resolves to).
NamesCommand(name) ==
    HasEntry(objects[router.commands], name)
        \/ FindByAlias(objects[router.commands], name) # 0

NamedEntry(name) ==
    LET entries == objects[router.commands]
    IN IF HasEntry(entries, name) THEN EntryOf(entries, name)
       ELSE entries[FindByAlias(entries, name)][2]

NamedCommand(name) ==
    IF IsLazy(NamedEntry(name)) THEN NamedEntry(name).loads[1] ELSE NamedEntry(name)

\* A route call through normal routing whose first argument names a command
\* that declares subcommands (a loader needs the logger to be resolved).
RoutedToParent ==
    /\ routed.done
    /\ router.customRouter = "none"
    /\ Len(routed.args) >= 1
    /\ NamesCommand(routed.args[1])
    /\ NamedCommand(routed.args[1]).hasSubs
    /\ IsLazy(NamedEntry(routed.args[1])) => router.hasLogger

\* ... and whose second argument is a non-flag token.
SecondIsName == Len(routed.args) >= 2 /\ ~StartsWith(routed.args[2], <<"-">>)

Descends ==
    /\ RoutedToParent
    /\ SecondIsName
    /\ HasEntry(NamedCommand(routed.args[1]).subcommands, routed.args[2])

AllCallNext(middleware) == \A i \in 1..Len(middleware) : middleware[i].does = "next"

\* C5: when the first argument names a command that declares subcommands and
\* the second is a non-flag token naming one of them, route descends exactly
\* one level: the only handler that can run is that subcommand's (never the
\* parent's, never a nested subcommand's), and when every outer middleware
\* calls its continuation and no beforeExecute transform rewrites the
\* context, it runs exactly once with the non-flag tokens after the
\* subcommand name as its positional args, a nested subcommand's name among
\* them.
C5_DescendsOneLevel ==
    Descends =>
        LET sub == EntryOf(NamedCommand(routed.args[1]).subcommands, routed.args[2])
            ran == EventsOf(routed.out.events, "handler")
        IN /\ \A i \in 1..Len(ran) : ran[i].who = sub.handler
           /\ AllCallNext(router.middleware) /\ router.beforeExecute # "swap" =>
                /\ Len(ran) = 1
                /\ ran[1].ctx.args =
                       NonFlags(SubSeq(routed.args, 3, Len(routed.args)))
                /\ Raised(routed.out) = NoError

\* C5 witness: route(["dns", "add", "ns"]) behind an outer middleware ran
\* the handler of dns add with ["ns"] as its args.
C5_Witness ==
    /\ Descends
    /\ routed.args = <<Token.dns, Token.add, Token.ns>>
    /\ Len(router.middleware) > 0
    /\ \E i \in 1..Len(routed.out.events) :
          /\ routed.out.events[i].e = "handler"
          /\ routed.out.events[i].who = "dns.add"
          /\ routed.out.events[i].ctx.args = <<Token.ns>>

\* C12: a command produced by createCommand from a spec that declares
\* subcommands keeps them: routing [cmd, sub, ...rest], sub a declared
\* subcommand, runs the subcommand's handler with the non-flag tokens of
\* rest as its args, and not the parent's handler.
C12_CreatedCommandKeepsSubcommands ==
    /\ routed.done
    /\ router.customRouter = "none"
    /\ router.beforeExecute # "swap"
    /\ AllCallNext(router.middleware)
    /\ Len(routed.args) >= 2
    /\ routed.args[1] = GreetSpec.name
    /\ EntryOf(objects[router.commands], GreetSpec.name) = CreateCommand(GreetSpec)
    /\ HasEntry(GreetSpec.subcommands, routed.args[2])
    => LET sub == EntryOf(GreetSpec.subcommands, routed.args[2])
           ran == EventsOf(routed.out.events, "handler")
       IN /\ Len(ran) = 1
          /\ ran[1].who = sub.handler
          /\ ran[1].ctx.args = NonFlags(SubSeq(routed.args, 3, Len(routed.args)))

\* The position of the first middleware of a list that returns without
\* calling its continuation, every one before it calling it; 0 if none.
StopsAt(middleware) ==
    LET stops == { i \in 1..Len(middleware) :
                     /\ middleware[i].does = "stop"
                     /\ \A j \in 1..(i - 1) : middleware[j].does = "next" }
    IN IF stops = {} THEN 0 ELSE CHOOSE i \in stops : TRUE

\* The steps behind a middleware: later middleware of the inner chain, the
\* built-in steps and the handler.
InnerSteps == {"middleware", "validateArgs", "validateOptions", "logExecution", "handler"}

\* In the builder's chain: the execute of a built command whose spec
\* middleware stops at position i ran the first i spec middleware and
\* nothing else.
InnerShortCircuits ==
    built.done /\ StopsAt(built.command.middleware) > 0 =>
        /\ Len(built.out.events) = StopsAt(built.command.middleware)
        /\ \A k \in 1..Len(built.out.events) :
              /\ built.out.events[k].e = "middleware"
              /\ built.out.events[k].who = built.command.middleware[k].id

\* In the router's chain: when the chain was started and stops at position
\* i, the first i outer middleware ran and no step behind them.
OuterShortCircuits ==
    /\ routed.done
    /\ StopsAt(router.middleware) > 0
    /\ Happened(routed.out.events, "outer")
    => /\ Len(EventsOf(routed.out.events, "outer")) = StopsAt(router.middleware)
       /\ \A k \in 1..Len(routed.out.events) : routed.out.events[k].e \notin InnerSteps

\* C13: in the outer (router) chain and in the inner (builder) chain alike,
\* a middleware that returns without calling its continuation
\* short-circuits the chain: no later middleware, no built-in validation
\* step and not the user handler is run for that invocation.
C13_OmittedContinuationShortCircuits == OuterShortCircuits /\ InnerShortCircuits

\* C18: the custom-routing hook is called with the full argument vector,
\* and when its result requests bypassing normal routing, route executes
\* the command the result names, with the result's args, and returns: no
\* alias lookup, no default-command or default-handler fallback and no
\* subcommand descent is performed, so no other command's handler runs, no
\* help is rendered in its place and no error of the resolution is raised.
C18_BypassSkipsNormalRouting ==
    routed.done =>
        LET result == CustomRouter(router.customRouter, routed.args)
            entries == objects[router.commands]
            ran == EventsOf(routed.out.events, "handler")
        IN result.some /\ result.skip =>
              /\ Raised(routed.out).kind \notin
                    {"Unknown command", "Unknown subcommand", "Default command not found"}
              /\ EventsOf(routed.out.events, "defaultHandler") = <<>>
              /\ EventsOf(routed.out.events, "render") = <<>>
              /\ \A k \in 1..Len(ran) :
                    /\ HasEntry(entries, result.command)
                    /\ ~IsLazy(EntryOf(entries, result.command)) =>
                          ran[k].who = EntryOf(entries, result.command).handler
                    /\ AllCallNext(router.middleware) /\ router.beforeExecute = "none" =>
                          ran[k].ctx.args = NonFlags(result.args)

\* The handlers of a command and of the commands under it.
RECURSIVE Family(_)
Family(command) ==
    IF IsLazy(command) THEN Family(command.loads[1])
    ELSE {command.handler}
         \cup UNION { Family(command.subcommands[i][2]) :
                        i \in 1..Len(command.subcommands) }

\* What the name of a route call resolves to by the stated precedence: a
\* key of the mapping, else an alias of an eager command, else the default
\* command, else the default handler, else nothing.  strict: a default
\* command that is not in the mapping counts as yielding no command;
\* otherwise it is a failure of its own.
ExpectedResolution(strict) ==
    LET entries == objects[router.commands]
        name == IF Len(routed.args) > 0 THEN routed.args[1] ELSE HelpName
        aliased == FindByAlias(entries, name)
        expected(how, command) == [how |-> how, name |-> name, command |-> command]
    IN IF HasEntry(entries, name) THEN expected("command", EntryOf(entries, name))
       ELSE IF aliased # 0 THEN expected("command", entries[aliased][2])
       ELSE IF router.defaultCommand # <<>> /\ HasEntry(entries, router.defaultCommand)
       THEN expected("command", EntryOf(entries, router.defaultCommand))
       ELSE IF router.defaultCommand # <<>> /\ ~strict
       THEN expected("Default command not found", NoCommand)
       ELSE IF router.defaultHandler THEN expected("defaultHandler", NoCommand)
       ELSE expected("Unknown command", NoCommand)

\* What a route call shows of the alternative it used.
ResolvedAs(expected) ==
    LET steps == SelectSeq(routed.out.events, LAMBDA ev : ev.e # "hook")
        ran == EventsOf(routed.out.events, "handler")
        direct == EventsOf(routed.out.events, "defaultHandler")
    IN CASE expected.how = "command" ->
              /\ direct = <<>>
              /\ \A k \in 1..Len(ran) : ran[k].who \in Family(expected.command)
              /\ steps = <<>> =>
                    Raised(routed.out).kind \notin
                        {"Unknown command", "Default command not found"}
         [] expected.how = "defaultHandler" ->
              /\ steps = direct
              /\ Len(direct) = 1
              /\ direct[1].ctx.args = routed.args
              /\ direct[1].ctx.options = ParseOptions(routed.args)
              /\ Raised(routed.out) = NoError
         [] expected.how = "Unknown command" ->
              /\ steps = <<>>
              /\ Raised(routed.out).kind = "Unknown command"
              /\ Raised(routed.out).name = expected.name
         [] expected.how = "Default command not found" ->
              /\ steps = <<>>
              /\ Raised(routed.out).kind = "Default command not found"
              /\ Raised(routed.out).name = router.defaultCommand

\* C19: route resolves the command name in strict precedence: exact key of
\* the mapping, else an alias of an eager command, else the configured
\* default command, else the configured default handler (invoked directly
\* with the full original args and the options parsed from them, without
\* any middleware), else it fails with an error naming the command; a later
\* alternative is used exactly when every earlier one yields no command.
C19_StrictPrecedence ==
    routed.done /\ router.customRouter = "none" => ResolvedAs(ExpectedResolution(TRUE))

\* C19 amended: the same precedence, except that a configured default
\* command ends the resolution: when it is not a key of the mapping route
\* fails with an error naming the default command, and neither the default
\* handler nor the command-not-found error is reached.
C19_DefaultCommandEndsResolution ==
    routed.done /\ router.customRouter = "none" => ResolvedAs(ExpectedResolution(FALSE))

\* C19 witness: with a default command and a default handler both
\* configured, route(["bogus", "ns"]) ran the default command with the full
\* argument vector and not the default handler.
C19_Witness ==
    /\ routed.done
    /\ router.customRouter = "none"
    /\ router.defaultCommand = Token.run
    /\ router.defaultHandler
    /\ routed.args = <<Token.bogus, Token.ns>>
    /\ EventsOf(routed.out.events, "defaultHandler") = <<>>
    /\ \E k \in 1..Len(routed.out.events) :
          /\ routed.out.events[k].e = "handler"
          /\ routed.out.events[k].who = "run"
          /\ routed.out.events[k].ctx.args = <<Token.bogus, Token.ns>>

\* How many times the route call awaited the given loader.
LoaderCalls(loader) ==
    Len(SelectSeq(routed.out.events,
                  LAMBDA ev : ev.e = "loader" /\ ev.who = loader))

\* C20: within one route call a lazy command's loader is invoked at most
\* once, on every path (normal execution, bypass via the custom router and
\* the help rendering for a lazy parent without a handler); route never
\* replaces the lazy entry in the command mapping, so a route call that
\* resolves the lazy command invokes its loader, whatever was routed before.
C20_LoaderInvokedOncePerRoute ==
    routed.done =>
        /\ LoaderCalls(LzCommand.handler) <= 1
        /\ IsLazy(EntryOf(objects[router.commands], Token.lz))
        /\ (router.customRouter = "none" /\ Len(routed.args) > 0
                /\ routed.args[1] = Token.lz) => LoaderCalls(LzCommand.handler) >= 1
        /\ (router.customRouter = "lazy" /\ Len(routed.args) > 0
                /\ routed.args[1] = Token.bogus) => LoaderCalls(LzCommand.handler) >= 1

\* The help of the named command was rendered, listing its subcommands.
RenderedHelpOf(name) ==
    \E i \in 1..Len(routed.out.events) :
        /\ routed.out.events[i].e = "render"
        /\ routed.out.events[i].path = <<NamedCommand(name).name>>
        /\ routed.out.events[i].list = EntryKeys(NamedCommand(name).subcommands)

\* C6: for a command with subcommands and no handler, every route call that
\* does not descend into a subcommand either renders the help of that
\* command, listing its subcommands, or fails with an unknown-subcommand
\* error; no outer middleware and no handler is run.
C6_ParentWithoutHandlerOnlyShowsHelp ==
    RoutedToParent /\ ~NamedCommand(routed.args[1]).hasExecute /\ ~Descends =>
        /\ \/ RenderedHelpOf(routed.args[1]) /\ Raised(routed.out) = NoError
           \/ Raised(routed.out).kind = "Unknown subcommand"
        /\ EventsOf(routed.out.events, "outer") = <<>>
        /\ EventsOf(routed.out.events, "handler") = <<>>

\* C7: routing [parent, x, ...] where parent has subcommands and no handler
\* and x is a non-flag token that is no key of its subcommands raises an
\* error that names x and lists every subcommand name of the parent in
\* order; no handler and no outer middleware is run.
C7_UnknownSubcommandIsNamed ==
    /\ RoutedToParent
    /\ ~NamedCommand(routed.args[1]).hasExecute
    /\ SecondIsName
    /\ ~Descends
    => /\ Raised(routed.out).kind = "Unknown subcommand"
       /\ Raised(routed.out).name = routed.args[2]
       /\ Raised(routed.out).command = <<routed.args[1]>>
       /\ Raised(routed.out).list = EntryKeys(NamedCommand(routed.args[1]).subcommands)
       /\ EventsOf(routed.out.events, "handler") = <<>>
       /\ EventsOf(routed.out.events, "outer") = <<>>

\* C7 witness: route(["dns", "bogus"]) threw the error that names bogus and
\* lists add and list.
C7_Witness ==
    /\ RoutedToParent
    /\ routed.args = <<Token.dns, Token.bogus>>
    /\ routed.out.err.kind = "Unknown subcommand"
    /\ routed.out.err.name = Token.bogus
    /\ routed.out.err.list = <<Token.add, Token.list>>

\* C22: for every resolved command that declares subcommands, with or
\* without a handler of its own, a next remaining non-flag argument that
\* matches no subcommand name makes route fail with an error; the argument
\* is never passed on to the parent's handler as a positional argument.
C22_UnmatchedNameIsAlwaysAnError ==
    RoutedToParent /\ SecondIsName /\ ~Descends
    => /\ Raised(routed.out) # NoError
       /\ EventsOf(routed.out.events, "handler") = <<>>

\* C22 amended: the unmatched name is an error exactly when the parent has
\* no handler of its own; a parent with a handler is executed instead, and
\* (when every outer middleware continues and no beforeExecute transform is
\* configured) its handler receives the unmatched name among its positional
\* arguments, which are the non-flag tokens after the command name.
C22_UnmatchedNameGoesToParentHandler ==
    RoutedToParent /\ SecondIsName /\ ~Descends
    => LET parent == NamedCommand(routed.args[1])
           ran == EventsOf(routed.out.events, "handler")
       IN IF parent.hasExecute
          THEN /\ Raised(routed.out).kind # "Unknown subcommand"
               /\ (AllCallNext(router.middleware) /\ router.beforeExecute = "none")
                  => /\ Len(ran) = 1
                     /\ ran[1].who = parent.handler
                     /\ ran[1].ctx.args = NonFlags(Tail(routed.args))
          ELSE /\ Raised(routed.out).kind = "Unknown subcommand"
               /\ Raised(routed.out).name = routed.args[2]
               /\ ran = <<>>

\* C22 witness: route(["run", "bogus"]), run having a handler and the
\* subcommand add, ran the handler of run with bogus as its argument.
C22_Witness ==
    /\ RoutedToParent
    /\ routed.args = <<Token.run, Token.bogus>>
    /\ routed.out.err = NoError
    /\ \E k \in 1..Len(routed.out.events) :
          /\ routed.out.events[k].e = "handler"
          /\ routed.out.events[k].who = "run"
          /\ routed.out.events[k].ctx.args = <<Token.bogus>>

\* How many times the route call invoked the named router hook.
HookCalls(hook) ==
    Len(SelectSeq(routed.out.events, LAMBDA ev : ev.e = "hook" /\ ev.who = hook))

\* C23: every route call through normal routing that completes without
\* error invokes the onAfterRoute hook exactly once, after the command
\* finished; when any step fails, onAfterRoute is not invoked and the error
\* is passed to the onError hook exactly once if one is configured (route
\* then completes normally) and otherwise propagates to the caller.
C23_AfterRouteOnEverySuccess ==
    (routed.done /\ router.customRouter = "none")
    => IF Raised(routed.out) = NoError
       THEN /\ HookCalls("onError") = 0
            /\ router.hooks.onAfterRoute
               => /\ HookCalls("onAfterRoute") = 1
                  /\ routed.out.events[Len(routed.out.events)].who = "onAfterRoute"
       ELSE /\ HookCalls("onAfterRoute") = 0
            /\ IF router.hooks.onError
               THEN HookCalls("onError") = 1 /\ routed.out.err = NoError
               ELSE HookCalls("onError") = 0 /\ routed.out.err = Raised(routed.out)

\* What the route call's handler was given, against what the beforeExecute
\* transform returned for the context it was called with.  named: whether
\* the returned command name is held to select the command that runs.
TransformTakesEffect(named) ==
    LET steps == routed.out.events
        ran == EventsOf(steps, "handler")
    IN \A k \in 1..Len(steps) :
          (steps[k].e = "hook" /\ steps[k].who = "beforeExecute"
              /\ AllCallNext(router.middleware) /\ ran # <<>>)
          => LET given == steps[k].ctx
                 transformed == BeforeExecute(router.beforeExecute, steps[k].path[1],
                                              given.args, given.options)
             IN IF transformed.some
                THEN /\ ran[1].ctx.args = transformed.args
                     /\ ran[1].ctx.options = transformed.options
                     /\ named => ran[1].who =
                           EntryOf(objects[router.commands], transformed.command).handler
                ELSE /\ ran[1].ctx.args = given.args
                     /\ ran[1].ctx.options = given.options

\* C24: when a beforeExecute transform is configured and returns a result,
\* all three rewritten fields take effect before the outer chain starts: the
\* command that is executed is the one named by the returned command name,
\* and it receives the returned args and options; when the transform
\* returns null nothing is changed.
C24_TransformRewritesCommandArgsOptions ==
    (routed.done /\ router.beforeExecute # "none") => TransformTakesEffect(TRUE)

\* The tokens that remain for the command of a route call through normal
\* routing: what follows the command name and the subcommand name that was
\* consumed, or the whole vector when the default command is used.
RemainingTokens ==
    LET named == NamesCommand(routed.args[1])
        command == IF named THEN NamedCommand(routed.args[1])
                   ELSE EntryOf(objects[router.commands], router.defaultCommand)
        rest == IF named THEN Tail(routed.args) ELSE routed.args
    IN IF Matches(command, rest) THEN Tail(rest) ELSE rest

\* The command such a route call resolves: the one named, or its subcommand
\* when the next token matches one.
ResolvedCommand ==
    LET command == NamedCommand(routed.args[1])
        rest == Tail(routed.args)
    IN IF Matches(command, rest) THEN EntryOf(command.subcommands, rest[1]) ELSE command

\* The indexes of args whose token parseOptions binds as the value of the
\* option before it.
BoundAsValue(args) ==
    { i \in 2..Len(args) :
        /\ ~StartsWith(args[i], <<"-">>)
        /\ StartsWith(args[i - 1], <<"-">>)
        /\ \E key \in DOMAIN ParseOptions(args) :
              /\ ParseOptions(args)[key] = JStr(args[i])
              /\ args[i - 1] \in {<<"-", "-">> \o key, <<"-">> \o key} }

\* C26: for every route call, the positional args handed to the command are
\* exactly the remaining tokens that do not begin with -, in their original
\* order; a token that the option parser bound as the value of a
\* space-separated option is therefore delivered both as that option's
\* value and as a positional argument, while the value of --name=value is
\* not.
C26_PositionalArgsAreTheNonFlagTokens ==
    (routed.done /\ router.customRouter = "none" /\ router.beforeExecute = "none"
        /\ Len(routed.args) >= 1)
    => LET ran == EventsOf(routed.out.events, "handler")
           rest == Tail(routed.args)
       IN \A k \in 1..Len(ran) :
             /\ ran[k].ctx.args = NonFlags(RemainingTokens)
             /\ NamesCommand(routed.args[1])
                => /\ ran[k].ctx.options = ParseOptions(rest)
                   /\ \A i \in BoundAsValue(rest) :
                         \/ \E j \in 1..Len(ran[k].ctx.args) : ran[k].ctx.args[j] = rest[i]
                   /\ \A j \in 1..Len(ran[k].ctx.args) :
                         ran[k].ctx.args[j] # <<"x">>

\* C26 witness: route(["run", "--v", "ns"]) handed the handler of run the
\* option v with the value ns and the positional argument ns.
C26_Witness ==
    /\ routed.done
    /\ router.customRouter = "none"
    /\ router.beforeExecute = "none"
    /\ routed.args = <<Token.run, Token.flagV, Token.ns>>
    /\ \E k \in 1..Len(routed.out.events) :
          /\ routed.out.events[k].e = "handler"
          /\ routed.out.events[k].who = "run"
          /\ routed.out.events[k].ctx.args = <<Token.ns>>
          /\ routed.out.events[k].ctx.options = [key \in {<<"v">>} |-> JStr(Token.ns)]

\* A route call through normal routing whose first argument is no key of
\* the mapping and an alias of an eager command; the key of that command.
RoutedByAlias ==
    /\ routed.done
    /\ router.customRouter = "none"
    /\ Len(routed.args) >= 1
    /\ ~HasEntry(objects[router.commands], routed.args[1])
    /\ FindByAlias(objects[router.commands], routed.args[1]) # 0

AliasedKey ==
    objects[router.commands][FindByAlias(objects[router.commands], routed.args[1])][1]

\* What is compared of two route calls: the handlers invoked with their
\* args and options, the help rendered, and the kind of failure.
SameOutcome(one, other) ==
    /\ EventsOf(one.events, "handler") = EventsOf(other.events, "handler")
    /\ EventsOf(one.events, "render") = EventsOf(other.events, "render")
    /\ Raised(one).kind = Raised(other).kind

\* C27: routing by alias is equivalent to routing by primary name: for every
\* eager command C with alias a and every argument tail t, route([a, ...t])
\* has the same outcome as route([C.name, ...t]): the same handler invoked
\* with the same args and options, the same help rendered when C has
\* subcommands and no handler, or the same failure.
C27_AliasRoutesLikeName ==
    RoutedByAlias
    => SameOutcome(routed.out,
                   Route(router, objects, <<AliasedKey>> \o Tail(routed.args)))

\* C28: argument and option validation, default application and namedArgs
\* binding exist only inside the execute produced by createCommand: for a
\* plain Command object placed in the command mapping or used as a
\* subcommand, the router calls its execute with the raw positional args and
\* parsed options whatever its declared args and options specs say, so a
\* missing required argument does not fail and namedArgs stays unset.
C28_PlainCommandsAreNotValidated ==
    (/\ routed.done
     /\ router.customRouter = "none"
     /\ router.beforeExecute = "none"
     /\ AllCallNext(router.middleware)
     /\ Len(routed.args) >= 1
     /\ NamesCommand(routed.args[1])
     /\ IsLazy(NamedEntry(routed.args[1])) => router.hasLogger
     /\ ResolvedCommand.kind = "plain"
     /\ ResolvedCommand.hasExecute)
    => LET ran == EventsOf(routed.out.events, "handler")
       IN /\ Raised(routed.out) = NoError
          /\ Len(ran) = 1
          /\ ran[1].who = ResolvedCommand.handler
          /\ ran[1].ctx.args = NonFlags(RemainingTokens)
          /\ ran[1].ctx.options = ParseOptions(Tail(routed.args))
          /\ ~ran[1].ctx.hasNamed
          /\ \A k \in 1..Len(routed.out.events) :
                routed.out.events[k].e \notin
                    {"validateArgs", "validateOptions", "logExecution"}

\* C28 witness: route(["dns", "add"]) ran the handler of add, a plain
\* command that declares a required argument and an option with a default,
\* with no args, no options and no namedArgs, and did not fail.
C28_Witness ==
    /\ routed.done
    /\ router.customRouter = "none"
    /\ routed.args = <<Token.dns, Token.add>>
    /\ routed.out.err = NoError
    /\ ResolvedCommand.args # <<>>
    /\ ResolvedCommand.args[1].required
    /\ \E k \in 1..Len(routed.out.events) :
          /\ routed.out.events[k].e = "handler"
          /\ routed.out.events[k].who = "dns.add"
          /\ routed.out.events[k].ctx.args = <<>>
          /\ routed.out.events[k].ctx.options = EmptyRecord
          /\ ~routed.out.events[k].ctx.hasNamed

(***************************************************************************)
(* Claims about bootstrap (SpecBoot)                                       *)
(***************************************************************************)

BootCalls == callers["cli1"].calls + callers["cli2"].calls + callers["direct"].calls

\* C10: however many calls of bootstrap were made, by whichever callers and
\* with whichever of them still waiting at their await, every error trap and
\* every termination-signal handler has been installed exactly once (and
\* not at all before the first call); and a step taken once the flag is set
\* changes neither the flag nor the handlers.
C10_BootstrapInstallsOnce ==
    /\ [](\A e \in BootEvents : handlers[e] = IF BootCalls > 0 THEN 1 ELSE 0)
    /\ [](bootstrapped <=> BootCalls > 0)
    /\ [][bootstrapped => UNCHANGED <<bootstrapped, handlers>>]_vars

\* C10 witness: all three callers have called, two of them twice, two are
\* still at their await, and each handler is installed once.
C10_Witness ==
    /\ callers["cli1"].calls = 2
    /\ callers["cli2"].calls = 2
    /\ callers["direct"].calls = 1
    /\ callers["cli1"].pc = "awaiting"
    /\ callers["direct"].pc = "awaiting"
    /\ \A e \in BootEvents : handlers[e] = 1


(***************************************************************************)
(* Claims about the CLI and its plugins (SpecCLI)                          *)
(***************************************************************************)

\* Every command of every loaded plugin is in the commands object.
PluginCommandsRegistered ==
    \A i \in 1..Len(cli.plugins) :
        \A j \in 1..Len(cli.plugins[i].commands) :
            /\ HasEntry(objects.commands, cli.plugins[i].commands[j][1])
            /\ EntryOf(objects.commands, cli.plugins[i].commands[j][1])
                   = cli.plugins[i].commands[j][2]

\* C8: after cli.registerCommand(n, c), for every name n, cli.commands[n] is
\* c, router.route([n]) runs the handler of c (when the outer middleware
\* call their continuation), and commands.help is a help command over the
\* commands object; the router holds the commands object of the CLI; and
\* the commands of the loaded plugins are registered.
C8_RegisterCommandTakesEffect ==
    /\ [](cli.made => router.commands = "commands" /\ PluginCommandsRegistered)
    /\ [][\A n \in RegisterNames :
             RegisterCommand(n, Registered(n)) =>
                /\ EntryOf(objects'.commands, n) = Registered(n)
                /\ EntryOf(objects'.commands, HelpName).kind = "help"
                /\ EntryOf(objects'.commands, HelpName).view = router'.commands
                /\ AllCallNext(router'.middleware) =>
                      Happened(Route(router', objects', <<n>>).events, "handler")
                      /\ \A ev \in {Route(router', objects', <<n>>).events[k] :
                                        k \in 1..Len(Route(router', objects', <<n>>).events)} :
                             ev.e = "handler" => ev.who = "registered"]_vars

\* How often the hook of the plugin is among the events.
Fired(events, hook, plugin) ==
    Len(SelectSeq(events, LAMBDA ev : ev.e = hook /\ ev.who = plugin))

ChainSteps(events) ==
    LET steps == SelectSeq(events, LAMBDA ev : ev.e \in {"outer"} \cup InnerSteps)
    IN [k \in 1..Len(steps) |-> steps[k].who]

\* The steps of a dispatch to the command behind the router's middleware
\* in which every middleware calls its continuation.
StepsInOrder(middleware, command) ==
    [k \in 1..Len(middleware) |-> middleware[k].id]
    \o (IF command.kind = "plain" THEN <<>>
        ELSE [k \in 1..Len(command.middleware) |-> command.middleware[k].id]
             \o <<"validateArgs", "validateOptions", "logExecution">>)
    \o (IF command.kind = "help" THEN <<>> ELSE <<command.handler>>)

IsPrefix(short, long) ==
    Len(short) <= Len(long) /\ short = SubSeq(long, 1, Len(short))

\* C14: for every routed invocation in which all middleware call their
\* continuation, the steps start in this order: the outer middleware in the
\* order they were registered (those of the config before every later
\* one), then inside the command's execute the spec's middleware in
\* declared order, positional-argument validation, option validation,
\* diagnostic logging and the user handler; a step that throws ends the
\* sequence there.
C14_StepsStartInOrder ==
    /\ cli.last.done
    /\ Len(cli.last.args) >= 1
    /\ HasEntry(cli.last.entries, cli.last.args[1])
    /\ ~IsLazy(EntryOf(cli.last.entries, cli.last.args[1]))
    /\ ~EntryOf(cli.last.entries, cli.last.args[1]).hasSubs
    /\ AllCallNext(cli.last.middleware)
    /\ AllCallNext(EntryOf(cli.last.entries, cli.last.args[1]).middleware)
    => LET expected == StepsInOrder(cli.last.middleware,
                                    EntryOf(cli.last.entries, cli.last.args[1]))
           steps == ChainSteps(routed.out.events)
       IN /\ IsPrefix(steps, expected)
          /\ Len(steps) >= 1
          /\ Raised(routed.out) = NoError => steps = expected
          /\ \A a, b \in 1..Len(cli.last.middleware) :
                cli.last.middleware[a].id = "c1" /\ cli.last.middleware[b].id # "c1"
                    => a < b

\* run(["greet"]) on a CLI with a config middleware, a useMiddleware
\* middleware and a plugin middleware: the three ran in that order, then the
\* two spec middleware, the three built-in steps and the handler.
C14_Witness ==
    /\ cli.last.done
    /\ cli.last.args = <<Token.greet>>
    /\ ChainSteps(routed.out.events) =
           <<"c1", "u1", "audit.mw", "m1", "m2", "validateArgs", "validateOptions",
             "logExecution", "greet">>

\* C21: alias lookup scans eager commands only: a name that is only an
\* alias of a lazy command resolves as unmatched as long as that command has
\* not been resolved by its primary name, and the alias is found once the
\* command has been resolved once by name.
C21_LazyAliasFoundAfterResolution ==
    (cli.last.done /\ cli.last.args = <<Token.l>>
        /\ HasEntry(cli.last.entries, Token.lz)
        /\ IsLazy(EntryOf(cli.last.entries, Token.lz)))
    => IF LzCommand.handler \in cli.last.loadedBefore
       THEN Raised(routed.out).kind # "Unknown command"
       ELSE /\ Raised(routed.out).kind = "Unknown command"
            /\ Raised(routed.out).name = Token.l

\* The integration steps of the last run, in order, and the place of a step
\* within the integration of one plugin.
IntegrationSteps ==
    SelectSeq(cli.last.before,
              LAMBDA ev : ev.e \in {"beforeInit", "register", "registerFactory",
                                    "registerCommand", "useMiddleware", "afterInit"})

StepRank(e) ==
    CASE e = "beforeInit" -> 1
      [] e \in {"register", "registerFactory"} -> 2
      [] e = "registerCommand" -> 3
      [] e = "useMiddleware" -> 4
      [] e = "afterInit" -> 5

\* The place of the named plugin in the load order of the last run.
LoadIndex(name) ==
    CHOOSE i \in 1..Len(cli.last.plugins) : cli.last.plugins[i].name = name

\* The services of the plugin with the given lifecycle or, with is FALSE,
\* with any other.
ServicesOf(plugin, lifecycle, is) ==
    SelectSeq(plugin.services, LAMBDA service : (service.lifecycle = lifecycle) = is)

RECURSIVE MiddlewareOfAll(_, _)
MiddlewareOfAll(plugins, i) ==
    IF i > Len(plugins) THEN <<>>
    ELSE plugins[i].middleware \o MiddlewareOfAll(plugins, i + 1)

RECURSIVE SingletonsOfAll(_, _)
SingletonsOfAll(plugins, i) ==
    IF i > Len(plugins) THEN 0
    ELSE Len(ServicesOf(plugins[i], "singleton", TRUE)) + SingletonsOfAll(plugins, i + 1)

\* C25: plugins are integrated one at a time in load order, and for each
\* plugin the steps run in this order: beforeInit, registration of its
\* services (a singleton's factory is invoked at once, exactly once; a
\* transient's factory is stored and not invoked), registration of its
\* commands, registration of its middleware at the end of the outer chain,
\* afterInit; the beforeInit of plugin k+1 never starts before the afterInit
\* of plugin k has completed.
C25_PluginsIntegrateInLoadOrder ==
    (cli.last.done /\ IntegrationSteps # <<>>)
    => LET steps == IntegrationSteps
           plugins == cli.last.plugins
           chain == cli.last.middleware
           added == MiddlewareOfAll(plugins, 1)
       IN /\ \A a, b \in 1..Len(steps) :
                a < b => \/ LoadIndex(steps[a].who) < LoadIndex(steps[b].who)
                         \/ /\ steps[a].who = steps[b].who
                            /\ StepRank(steps[a].e) <= StepRank(steps[b].e)
          /\ \A i \in 1..Len(plugins) :
                LET plugin == plugins[i]
                    count(e) == Fired(steps, e, plugin.name)
                IN /\ count("beforeInit") = IF plugin.hooks.beforeInit THEN 1 ELSE 0
                   /\ count("afterInit") = IF plugin.hooks.afterInit THEN 1 ELSE 0
                   /\ count("register") = Len(ServicesOf(plugin, "singleton", TRUE))
                   /\ count("registerFactory") = Len(ServicesOf(plugin, "singleton", FALSE))
                   /\ count("registerCommand") = Len(plugin.commands)
                   /\ count("useMiddleware") = Len(plugin.middleware)
                   /\ \A j \in 1..Len(plugin.services) :
                         plugin.services[j].lifecycle # "singleton"
                         => cli.last.factories[plugin.services[j].token]
                                = plugin.services[j].factory
          /\ cli.last.made - cli.last.madeBefore = SingletonsOfAll(plugins, 1)
          /\ Len(chain) >= Len(added)
          /\ SubSeq(chain, Len(chain) - Len(added) + 1, Len(chain)) = added

\* C25 witness: a run integrated audit and then extra: audit's beforeInit,
\* its singleton, its command, its middleware and its afterInit, then
\* extra's beforeInit, its transient factory and its command.
C25_Witness ==
    /\ cli.last.done
    /\ [k \in 1..Len(IntegrationSteps) |->
           <<IntegrationSteps[k].who, IntegrationSteps[k].e>>]
       = << <<"audit", "beforeInit">>, <<"audit", "register">>,
            <<"audit", "registerCommand">>, <<"audit", "useMiddleware">>,
            <<"audit", "afterInit">>, <<"extra", "beforeInit">>,
            <<"extra", "registerFactory">>, <<"extra", "registerCommand">> >>
    /\ cli.last.made = cli.last.madeBefore + 1
    /\ cli.last.factories["db"] = "f2"

\* The help command of the CLI and what `help <name>` does with a name:
\* the handler of the help command over the object it views.
HelpOfCLI == EntryOf(objects[router.commands], HelpName)

HelpFor(name) ==
    HelpHandler(objects[HelpOfCLI.view], Context(<<name>>, EmptyRecord, TRUE))

\* C29: in every state reachable by createCLI followed by any sequence of
\* registerCommand calls, the help command's view equals the router's
\* command mapping: every name that route resolves by exact key, the
\* built-in help and version included, is also resolvable by `help <name>`
\* without an unknown-command error.
C29_HelpViewsTheRouterMapping ==
    cli.made
    => /\ objects[HelpOfCLI.view] = objects[router.commands]
       /\ \A i \in 1..Len(objects[router.commands]) :
             HelpFor(objects[router.commands][i][1]).err.kind # "Unknown command"

\* How often the middleware is in the router's outer chain.
TimesInChain(middleware) ==
    Len(SelectSeq(router.middleware, LAMBDA mw : mw = middleware))

\* C30: plugin integration is idempotent: after any number of cli.run calls
\* on one CLI with plugins enabled, or repeated loadAllPlugins calls, each
\* loaded plugin's beforeInit and afterInit have each run once and each of
\* its middleware is once in the router's outer chain.
C30_IntegrationIsIdempotent ==
    cli.made
    => \A i \in 1..Len(cli.plugins) :
          LET plugin == cli.plugins[i]
          IN /\ plugin.hooks.beforeInit => cli.initHooks[<<"beforeInit", plugin.name>>] = 1
             /\ plugin.hooks.afterInit => cli.initHooks[<<"afterInit", plugin.name>>] = 1
             /\ \A j \in 1..Len(plugin.middleware) :
                   TimesInChain(plugin.middleware[j]) = 1

Init == RegistryInit /\ ParseInit /\ BuiltInit /\ RouterInit /\ BootInit /\ CLIInit

Next ==
    \/ RegistryNext /\ UNCHANGED <<parseVars, builtVars, routerVars, bootVars, cliVars>>
    \/ ParseNext /\ UNCHANGED <<regVars, builtVars, routerVars, bootVars, cliVars>>
    \/ BuiltNext /\ UNCHANGED <<regVars, parseVars, routerVars, bootVars, cliVars>>
    \/ RouterNext /\ UNCHANGED <<regVars, parseVars, builtVars, bootVars, cliVars>>
    \/ BootNext /\ UNCHANGED <<regVars, parseVars, builtVars, routerVars, cliVars>>
    \/ CLINext /\ UNCHANGED <<parseVars, builtVars>>

Spec == Init /\ [][Next]_vars

SpecRegistry == Init /\ [][RegistryNext /\ UNCHANGED <<parseVars, builtVars, routerVars, bootVars, cliVars>>]_vars

SpecParse == Init /\ [][ParseNext /\ UNCHANGED <<regVars, builtVars, routerVars, bootVars, cliVars>>]_vars

SpecBuilt == Init /\ [][BuiltNext /\ UNCHANGED <<regVars, parseVars, routerVars, bootVars, cliVars>>]_vars

SpecRouter == Init /\ [][RouterNext /\ UNCHANGED <<regVars, parseVars, builtVars, bootVars, cliVars>>]_vars

SpecBoot == Init /\ [][BootNext /\ UNCHANGED <<regVars, parseVars, builtVars, routerVars, cliVars>>]_vars

SpecCLI == Init /\ [][CLINext /\ UNCHANGED <<parseVars, builtVars>>]_vars

====
